---- MODULE Spec2Model ----
(***************************************************************************)
(* Verification model of the FitnessApp planning, progress-analysis and    *)
(* daily-recommendation code (src/planner.py, src/progresstracker.py,      *)
(* src/Engine.py, src/database_setup.py).                                  *)
(***************************************************************************)
EXTENDS Integers, Sequences, FiniteSets, TLC

VARIABLES
    fn_call, fn_ret,        \* a call of a pure function and its result
    pc,                     \* position inside generate_plan
    prefs,                  \* plan_preferences, user_details and the selector in use
    training_split,         \* result of _determine_training_split
    workout_schedule,       \* the base schedule built by _create_workout_schedule
    progressive_plan,       \* the weeks built so far by _apply_progression
    heap,                   \* the exercise dicts, by object identity
    complete_plan,          \* the value generate_plan returned
    mutated,                \* the slot of the result the caller wrote to
    today,                  \* the current date, as a day number
    fitness_plans,          \* table fitness_plans
    plan_workouts,          \* table plan_workouts, in insertion order
    workout_logs,           \* table workout_logs: row -> number of copies
    progression_tracking,   \* table progression_tracking, in insertion order
    analysis,               \* the value analyze_workout_history returned last
    response,               \* the value get_daily_recommendation returned
    report                  \* the value generate_progress_report returned

pureVars == <<fn_call, fn_ret>>
planVars == <<pc, prefs, training_split, workout_schedule, progressive_plan,
              heap, complete_plan, mutated>>

dbVars == <<today, fitness_plans, plan_workouts, workout_logs,
            progression_tracking, analysis, response, report>>

vars == <<fn_call, fn_ret, pc, prefs, training_split, workout_schedule,
          progressive_plan, heap, complete_plan, mutated, today, fitness_plans,
          plan_workouts, workout_logs, progression_tracking, analysis, response,
          report>>

(***************************************************************************)
(* Bounds of the model                                                     *)
(***************************************************************************)
\* largest workouts_per_week passed to _determine_training_split
MaxPerWeek == 9
\* largest reps value passed to calculate_one_rep_max
MaxReps == 40
\* longest daily series passed to _calculate_trend
MaxSeriesLen == 4
\* largest value of a point of a daily series
MaxSeriesVal == 3
\* longest program (weeks) handed to generate_plan
MaxWeeks == 8
\* largest workouts_per_week handed to generate_plan
MaxPlanPerWeek == 8
\* largest workouts_per_week when exercises come from the catalogue
MaxCatalogPerWeek == 2
\* longest program (weeks) when exercises come from the catalogue
MaxCatalogWeeks == 5
\* workout logs written before and between analyses
MaxTrackLogs == 2
\* last day on which the progress tracker is exercised
MaxTrackDay == 1
\* Progression Records written
MaxRecords == 2
\* weeks between the creation of the plan and day 0
MaxPlanAge == 1
\* last day on which a recommendation is requested
MaxRecDay == 3
MaxAdjLogs == 3
MaxAdjDay == 1
MaxAdjRecords == 2
MaxReportLogs == 3
MaxReportDay == 1
\* longest program (weeks) whose workouts are stored
MaxStoreWeeks == 3
\* longest program (weeks) whose weeks are built in any order
MaxOrderWeeks == 3

(***************************************************************************)
(* Exact rational arithmetic: a number is <<numerator, denominator>> with  *)
(* a positive denominator, kept in lowest terms.                           *)
(***************************************************************************)
Abs(i) == IF i < 0 THEN -i ELSE i

RECURSIVE Gcd(_, _)
Gcd(a, b) == IF b = 0 THEN a ELSE Gcd(b, a % b)

Norm(n, d) ==
    LET s == IF d < 0 THEN -1 ELSE 1
        g == Gcd(Abs(n), Abs(d))
    IN  IF n = 0 THEN <<0, 1>> ELSE <<(s * n) \div g, (s * d) \div g>>

Int2Rat(i) == <<i, 1>>
RAdd(p, q) == Norm(p[1] * q[2] + q[1] * p[2], p[2] * q[2])
RSub(p, q) == Norm(p[1] * q[2] - q[1] * p[2], p[2] * q[2])
RMul(p, q) == Norm(p[1] * q[1], p[2] * q[2])
RDiv(p, q) == Norm(p[1] * q[2], p[2] * q[1])
RLess(p, q) == p[1] * q[2] < q[1] * p[2]
RZero == Int2Rat(0)

RECURSIVE RSum(_)
RSum(s) == IF s = <<>> THEN RZero ELSE RAdd(s[1], RSum(Tail(s)))

\* Python int(x): truncation toward zero
TruncInt(p) == IF p[1] >= 0 THEN p[1] \div p[2] ELSE -((-p[1]) \div p[2])

(***************************************************************************)
(* planner.py: WorkoutPlanner._determine_training_split                    *)
(***************************************************************************)
Goals == {"Sports and Athletics", "Body Building", "Body Weight Fitness",
          "Weight Loss", "Mobility Exclusive", "General Fitness",
          "Strength Training"}

\* Python's  keyword in goal  for the keywords the planner tests
GoalContains(goal, keyword) ==
    CASE keyword = "Strength"      -> goal = "Strength Training"
      [] keyword = "Body Building" -> goal = "Body Building"
      [] keyword = "Sports"        -> goal = "Sports and Athletics"
      [] keyword = "Weight Loss"   -> goal = "Weight Loss"
      [] keyword = "Mobility"      -> goal = "Mobility Exclusive"
      [] OTHER -> FALSE

training_splits ==
    [ g \in Goals |->
        CASE g = "Sports and Athletics" ->
               (2 :> <<"Full Body", "Full Body">>) @@
               (3 :> <<"Upper Body", "Lower Body", "Full Body">>) @@
               (4 :> <<"Upper Body", "Lower Body", "Cardio/Plyometrics", "Sport Specific">>) @@
               (5 :> <<"Upper Push", "Lower Pull", "Rest/Recovery", "Upper Pull", "Lower Push">>)
          [] g = "Body Building" ->
               (3 :> <<"Push", "Pull", "Legs">>) @@
               (4 :> <<"Upper Body", "Lower Body", "Upper Body", "Lower Body">>) @@
               (5 :> <<"Chest/Triceps", "Back/Biceps", "Legs/Shoulders", "Upper Body", "Lower Body">>) @@
               (6 :> <<"Push", "Pull", "Legs", "Push", "Pull", "Legs">>)
          [] g = "Body Weight Fitness" ->
               (2 :> <<"Upper Body", "Lower Body">>) @@
               (3 :> <<"Push", "Pull", "Legs/Core">>) @@
               (4 :> <<"Horizontal Push/Pull", "Legs", "Vertical Push/Pull", "Core/Conditioning">>)
          [] g = "Weight Loss" ->
               (2 :> <<"Full Body + HIIT", "Full Body + Steady Cardio">>) @@
               (3 :> <<"Upper Body + HIIT", "Lower Body + HIIT", "Full Body + Steady Cardio">>) @@
               (4 :> <<"Upper Push + HIIT", "Lower Body + Steady Cardio", "Upper Pull + HIIT", "Full Body Circuit">>)
          [] g = "Mobility Exclusive" ->
               (2 :> <<"Upper Body Mobility", "Lower Body Mobility">>) @@
               (3 :> <<"Dynamic Mobility", "Static Stretching", "Joint Mobility">>) @@
               (4 :> <<"Upper Body Mobility", "Lower Body Mobility", "Full Body Flow", "Targeted Rehab">>)
          [] OTHER -> <<>> ]

default_splits ==
    (1 :> <<"Full Body">>) @@
    (2 :> <<"Upper Body", "Lower Body">>) @@
    (3 :> <<"Push", "Pull", "Legs">>) @@
    (4 :> <<"Upper Body", "Lower Body", "Upper Body", "Lower Body">>) @@
    (5 :> <<"Chest/Triceps", "Back/Biceps", "Legs", "Shoulders/Arms", "Full Body">>) @@
    (6 :> <<"Push", "Pull", "Legs", "Push", "Pull", "Legs">>) @@
    (7 :> <<"Chest", "Back", "Legs", "Shoulders", "Arms", "Full Body", "Active Recovery">>)

\* faulty variant: the cap is left out
CapPerWeek_NoCap(workouts_per_week) == workouts_per_week

\* the cap of line 86-87
CapPerWeek(workouts_per_week) ==
    IF workouts_per_week > 7 THEN 7 ELSE workouts_per_week

_determine_training_split(workouts_per_week, goal) ==
    LET n == CapPerWeek(workouts_per_week)
    IN  IF n \in DOMAIN training_splits[goal]
        THEN training_splits[goal][n]
        ELSE IF n \in DOMAIN default_splits
             THEN default_splits[n]
             ELSE [i \in 1..n |-> "Full Body"]

(***************************************************************************)
(* progresstracker.py: ProgressTracker.calculate_one_rep_max               *)
(***************************************************************************)
\* faulty variant: the high-rep branch starts one rep late
calculate_one_rep_max_late(weight, reps) ==
    IF reps = 1 THEN Int2Rat(weight)
    ELSE IF reps > 36 + 1 THEN Int2Rat(weight * 2)
    ELSE IF reps = 37 THEN Int2Rat(weight * 36)
    ELSE RMul(Int2Rat(weight), RDiv(Int2Rat(36), Int2Rat(37 - reps)))

calculate_one_rep_max(weight, reps) ==
    IF reps = 1 THEN Int2Rat(weight)
    ELSE IF reps > 36 THEN Int2Rat(weight * 2)
    ELSE RMul(Int2Rat(weight), RDiv(Int2Rat(36), Int2Rat(37 - reps)))

(***************************************************************************)
(* progresstracker.py: ProgressTracker._calculate_trend                    *)
(* np.polyfit(x, y, 1) is the least-squares line; its slope is             *)
(* (n*Sxy - Sx*Sy) / (n*Sxx - Sx*Sx) over x = 0..n-1.                      *)
(***************************************************************************)
PolyfitSlope(series) ==
    LET n   == Len(series)
        Sx  == RSum([i \in 1..n |-> Int2Rat(i - 1)])
        Sy  == RSum(series)
        Sxy == RSum([i \in 1..n |-> RMul(Int2Rat(i - 1), series[i])])
        Sxx == RSum([i \in 1..n |-> Int2Rat((i - 1) * (i - 1))])
    IN  RDiv(RSub(RMul(Int2Rat(n), Sxy), RMul(Sx, Sy)),
             RSub(RMul(Int2Rat(n), Sxx), RMul(Sx, Sx)))

\* faulty variant: the normalisation guard on the first value is dropped
\* (a zero first value then leaves the raw slope)
_calculate_trend_unguarded(series) ==
    IF Len(series) < 2 THEN RZero
    ELSE IF series[1][1] # 0
         THEN RMul(RDiv(PolyfitSlope(series), series[1]), Int2Rat(100))
         ELSE PolyfitSlope(series)

_calculate_trend(series) ==
    IF Len(series) < 2 THEN RZero
    ELSE IF RLess(RZero, series[1])
         THEN RMul(RDiv(PolyfitSlope(series), series[1]), Int2Rat(100))
         ELSE RZero

(***************************************************************************)
(* Calls of the pure functions on inputs drawn from bounded sets           *)
(***************************************************************************)
Weights == {0, 50, 100}

RECURSIVE SeqsUpTo(_, _)
SeqsUpTo(S, n) ==
    IF n = 0 THEN {<<>>}
    ELSE LET shorter == SeqsUpTo(S, n - 1)
         IN  shorter \cup {Append(s, x) : s \in {t \in shorter : Len(t) = n - 1}, x \in S}

SplitCalls == [fn : {"split"}, n : 1..MaxPerWeek, goal : Goals]
OrmCalls   == [fn : {"orm"}, weight : Weights, reps : 0..MaxReps]
TrendCalls == [fn : {"trend"},
               series : SeqsUpTo({Int2Rat(v) : v \in 0..MaxSeriesVal}, MaxSeriesLen)]

\* the arguments of a call of _select_exercises_for_focus
SelectFocuses == {"Upper Body", "Lower Body", "Full Body + HIIT"}
EquipmentSets == {{"Bodyweight"}, {"Bodyweight", "Dumbbells"},
                  {"Barbell", "Bodyweight", "Dumbbells"}}
LimitationSets == {{"None"}, {"Knees"}, {"None", "Lower Back"}}
SelectCalls == [fn : {"select"}, selector : {"placeholder", "catalog"},
                focus : SelectFocuses, equipment : EquipmentSets,
                limitations : LimitationSets,
                experience_level : {"Beginner", "Intermediate", "Advanced", "Elite"},
                goal : Goals]

NoRet == [done |-> FALSE]

IdlePlan ==
    /\ pc = "idle"
    /\ prefs = [goal |-> "General Fitness"]
    /\ training_split = <<>>
    /\ workout_schedule = <<>>
    /\ progressive_plan = <<>>
    /\ heap = <<>>
    /\ complete_plan = [returned |-> FALSE]
    /\ mutated = [done |-> FALSE]

IdleDb ==
    /\ today = 0
    /\ fitness_plans = {}
    /\ plan_workouts = <<>>
    /\ workout_logs = <<>>
    /\ progression_tracking = <<>>
    /\ analysis = [status |-> "none"]
    /\ response = [done |-> FALSE]
    /\ report = [status |-> "none"]

InitPure ==
    /\ fn_call \in SplitCalls \cup OrmCalls \cup TrendCalls \cup SelectCalls
    /\ fn_ret = NoRet
    /\ IdlePlan
    /\ IdleDb

CallDetermineTrainingSplit ==
    /\ fn_call.fn = "split"
    /\ ~fn_ret.done
    /\ fn_ret' = [done |-> TRUE,
                  val |-> _determine_training_split(fn_call.n, fn_call.goal)]
    /\ UNCHANGED <<fn_call, planVars, dbVars>>

CallCalculateOneRepMax ==
    /\ fn_call.fn = "orm"
    /\ ~fn_ret.done
    /\ fn_ret' = [done |-> TRUE,
                  val |-> calculate_one_rep_max(fn_call.weight, fn_call.reps)]
    /\ UNCHANGED <<fn_call, planVars, dbVars>>

CallCalculateTrend ==
    /\ fn_call.fn = "trend"
    /\ ~fn_ret.done
    /\ fn_ret' = [done |-> TRUE, val |-> _calculate_trend(fn_call.series)]
    /\ UNCHANGED <<fn_call, planVars, dbVars>>

(***************************************************************************)
(* Strings the planner parses or formats.  A reps or notes string is a     *)
(* sequence of tokens: a decimal number, the dash, or a fixed piece of     *)
(* text.  "8-12" is <<Num(8), Dash, Num(12)>>, "30-60 seconds" is          *)
(* <<Num(30), Dash, Num(60), Txt(" seconds")>>.                            *)
(***************************************************************************)
Num(n) == [k |-> "num", n |-> n]
Dash == [k |-> "-", n |-> 0]
Txt(t) == [k |-> t, n |-> 0]

\* f"{a}-{b}" for non-negative integers
FormatRange(a, b) == <<Num(a), Dash, Num(b)>>

\* "-" in reps
HasDash(reps) == \E i \in 1..Len(reps) : reps[i] = Dash

\* int(piece): a piece converts when it is one decimal number and nothing else
IsInt(piece) == Len(piece) = 1 /\ piece[1].k = "num"

\* min_reps, max_reps = map(int, reps.split("-")): two pieces, both integers;
\* anything else raises ValueError
ParseRange(reps) ==
    LET i     == CHOOSE j \in 1..Len(reps) :
                    reps[j] = Dash /\ \A l \in 1..(j - 1) : reps[l] # Dash
        left  == SubSeq(reps, 1, i - 1)
        right == SubSeq(reps, i + 1, Len(reps))
    IN  IF IsInt(left) /\ IsInt(right)
        THEN [ok |-> TRUE, min |-> left[1].n, max |-> right[1].n]
        ELSE [ok |-> FALSE, min |-> 0, max |-> 0]

\* notes of an exercise whose instructions column is NULL
NoneStr == <<Txt("None")>>
IncreaseNote(pct) == [k |-> " Increase weight by N% from previous week.", n |-> pct]
DeloadNote == Txt(" DELOAD WEEK: Reduce weights by 10-15% but maintain good form.")

Min(a, b) == IF a < b THEN a ELSE b
Max(a, b) == IF a > b THEN a ELSE b

(***************************************************************************)
(* The exercise catalogue (external data) and the two selectors            *)
(***************************************************************************)
Levels == {"Beginner", "Intermediate", "Advanced", "Elite"}
ExerciseTypes == <<"Compound", "Isolation", "Cardio", "Mobility">>

\* planner.py, lines 192-199; the rows carry no instructions key
sample_exercises ==
    << [id |-> 1, title |-> "Barbell Squat", type |-> "Compound",
        body_part |-> "Legs", equipment |-> "Barbell", instructions |-> <<>>],
       [id |-> 2, title |-> "Push-ups", type |-> "Compound",
        body_part |-> "Chest", equipment |-> "Bodyweight", instructions |-> <<>>],
       [id |-> 3, title |-> "Bicep Curls", type |-> "Isolation",
        body_part |-> "Arms", equipment |-> "Dumbbells", instructions |-> <<>>] >>

\* rows of the exercises table used when the selector queries the catalogue
Catalog ==
    { [id |-> 11, title |-> "Squat", type |-> "Compound", equipment |-> "Barbell",
       body_part |-> "Lower Body", instructions |-> <<Txt("Keep the chest up.")>>],
      [id |-> 12, title |-> "Deadlift", type |-> "Compound", equipment |-> "Barbell",
       body_part |-> "Lower Body", instructions |-> <<Txt("Hinge at the hips.")>>],
      [id |-> 13, title |-> "Push-ups", type |-> "Compound", equipment |-> "Bodyweight",
       body_part |-> "Upper Body", instructions |-> <<Txt("Keep the body straight.")>>],
      [id |-> 14, title |-> "Bicep Curls", type |-> "Isolation", equipment |-> "Dumbbells",
       body_part |-> "Upper Body", instructions |-> <<Txt("Do not swing.")>>],
      [id |-> 15, title |-> "Running", type |-> "Cardio", equipment |-> "Bodyweight",
       body_part |-> "Full Body", instructions |-> NoneStr],
      [id |-> 16, title |-> "Hip Stretch", type |-> "Mobility", equipment |-> "Bodyweight",
       body_part |-> "Full Body", instructions |-> <<Txt("Hold the stretch.")>>],
      \* titles are not unique in the exercises table
      [id |-> 17, title |-> "Squat", type |-> "Compound", equipment |-> "Dumbbells",
       body_part |-> "Neck", instructions |-> <<Txt("Hold the dumbbell high.")>>],
      [id |-> 18, title |-> "Rowing", type |-> "Cardio", equipment |-> "Bodyweight",
       body_part |-> "Upper Body", instructions |-> <<Txt("Pull with the back.")>>] }

\* title.lower()
Lower(title) ==
    CASE title = "Squat" -> "squat"
      [] title = "Deadlift" -> "deadlift"
      [] title = "Barbell Squat" -> "barbell squat"
      [] title = "Push-ups" -> "push-ups"
      [] title = "Bicep Curls" -> "bicep curls"
      [] title = "Running" -> "running"
      [] title = "Hip Stretch" -> "hip stretch"
      [] title = "Rowing" -> "rowing"
      [] OTHER -> title

\* day_focus.lower().split('/'): first and last keyword (LIKE ignores case)
FocusKeywords(focus) ==
    CASE focus = "Cardio/Plyometrics" -> <<"Cardio", "Plyometrics">>
      [] focus = "Rest/Recovery" -> <<"Rest", "Recovery">>
      [] focus = "Chest/Triceps" -> <<"Chest", "Triceps">>
      [] focus = "Back/Biceps" -> <<"Back", "Biceps">>
      [] focus = "Legs/Shoulders" -> <<"Legs", "Shoulders">>
      [] focus = "Legs/Core" -> <<"Legs", "Core">>
      [] focus = "Horizontal Push/Pull" -> <<"Horizontal Push", "Pull">>
      [] focus = "Vertical Push/Pull" -> <<"Vertical Push", "Pull">>
      [] focus = "Core/Conditioning" -> <<"Core", "Conditioning">>
      [] focus = "Shoulders/Arms" -> <<"Shoulders", "Arms">>
      [] OTHER -> <<focus, focus>>

\* haystack LIKE '%needle%' for the catalogue's body parts and titles
Like(haystack, needle) ==
    \/ haystack = needle
    \/ haystack = "Push-ups" /\ needle = "Push"
    \/ haystack = "Upper Body" /\ needle = "Upper"
    \/ haystack = "Lower Body" /\ needle = "Lower"

\* exercise_count of both selectors (planner.py 156-172, workout_planner.py 23-39)
exercise_count(experience_level, goal) ==
    LET base == CASE experience_level = "Intermediate" ->
                       [Compound |-> 3, Isolation |-> 3, Cardio |-> 1, Mobility |-> 1]
                  [] experience_level = "Advanced" ->
                       [Compound |-> 4, Isolation |-> 4, Cardio |-> 1, Mobility |-> 1]
                  [] OTHER ->
                       [Compound |-> 2, Isolation |-> 2, Cardio |-> 1, Mobility |-> 1]
    IN  IF GoalContains(goal, "Body Building")
        THEN [base EXCEPT !.Isolation = @ + 1]
        ELSE IF GoalContains(goal, "Sports")
        THEN [base EXCEPT !.Compound = @ + 1]
        ELSE IF GoalContains(goal, "Weight Loss")
        THEN [base EXCEPT !.Cardio = @ + 1]
        ELSE IF GoalContains(goal, "Mobility")
        THEN [base EXCEPT !.Mobility = @ + 2, !.Compound = @ - 1, !.Isolation = @ - 1]
        ELSE base

\* planner.py: sample_exercises[:sum(exercise_count.values())]
PlaceholderSelection(experience_level, goal) ==
    LET c == exercise_count(experience_level, goal)
        n == c.Compound + c.Isolation + c.Cardio + c.Mobility
    IN  SubSeq(sample_exercises, 1, Min(Len(sample_exercises), Max(n, 0)))

\* workout_planner.py: the rows of one category matching the focus
Matching(exercise_type, focus) ==
    LET kw == FocusKeywords(focus)
    IN  { e \in Catalog :
            /\ e.type = exercise_type
            /\ \/ Like(e.body_part, kw[1])
               \/ Like(e.body_part, kw[2])
               \/ Like(e.title, kw[1]) }

\* ORDER BY RANDOM() LIMIT count: any arrangement of count of the rows (all of
\* them when there are fewer)
RandomLimit(rows, count) ==
    LET n == Min(count, Cardinality(rows))
    IN  { s \in [1..n -> rows] : \A i, j \in 1..n : i # j => s[i] # s[j] }

\* workout_planner.py: the lists _select_exercises_for_focus can return
CatalogSelections(focus, experience_level, goal) ==
    LET c == exercise_count(experience_level, goal)
        pick(t, count) == IF count <= 0 THEN {<<>>}
                          ELSE RandomLimit(Matching(t, focus), count)
    IN  { a \o b \o cc \o d :
            a \in pick("Compound", c.Compound),
            b \in pick("Isolation", c.Isolation),
            cc \in pick("Cardio", c.Cardio),
            d \in pick("Mobility", c.Mobility) }

\* rows of exercise_contraindications (read by get_exercises_by_criteria only)
exercise_contraindications ==
    { [exercise_id |-> 1, limitation |-> "Knees"],
      [exercise_id |-> 11, limitation |-> "Knees"],
      [exercise_id |-> 12, limitation |-> "Lower Back"] }

\* both selectors take equipment and limitations and read neither
_select_exercises_for_focus(selector, focus, equipment, limitations, experience_level, goal) ==
    IF selector = "placeholder"
    THEN {PlaceholderSelection(experience_level, goal)}
    ELSE CatalogSelections(focus, experience_level, goal)

\* a call of _select_exercises_for_focus outside plan generation
CallSelectExercises ==
    /\ fn_call.fn = "select"
    /\ ~fn_ret.done
    /\ \E exercises \in _select_exercises_for_focus(fn_call.selector, fn_call.focus,
                             fn_call.equipment, fn_call.limitations,
                             fn_call.experience_level, fn_call.goal) :
         fn_ret' = [done |-> TRUE, val |-> exercises]
    /\ UNCHANGED <<fn_call, planVars, dbVars>>

NextPure ==
    \/ CallDetermineTrainingSplit
    \/ CallCalculateOneRepMax
    \/ CallCalculateTrend
    \/ CallSelectExercises

SpecPure == InitPure /\ [][NextPure]_vars

(***************************************************************************)
(* planner.py: the Workout Parameterizer (_create_workout_schedule)        *)
(***************************************************************************)
intensity_mapping(experience_level) ==
    CASE experience_level = "Intermediate" -> [sets |-> 4, reps |-> FormatRange(8, 10)]
      [] experience_level = "Advanced" -> [sets |-> 5, reps |-> FormatRange(6, 12)]
      [] OTHER -> [sets |-> 3, reps |-> FormatRange(8, 12)]

_determine_rest_period(exercise_type, goal) ==
    IF exercise_type = "Compound"
    THEN IF GoalContains(goal, "Strength") \/ GoalContains(goal, "Body Building")
         THEN "2-3 minutes" ELSE "60-90 seconds"
    ELSE IF exercise_type = "Isolation"
    THEN IF GoalContains(goal, "Body Building") THEN "60-90 seconds" ELSE "30-60 seconds"
    ELSE IF exercise_type = "Cardio" THEN "Minimal rest"
    ELSE "30 seconds"

_determine_tempo(exercise_type, goal) ==
    IF GoalContains(goal, "Strength")
    THEN IF exercise_type = "Compound" THEN "2-0-2" ELSE "2-0-1"
    ELSE IF GoalContains(goal, "Body Building") THEN "3-1-2"
    ELSE IF GoalContains(goal, "Sports")
    THEN IF exercise_type = "Compound" THEN "1-0-1" ELSE "2-0-2"
    ELSE "2-0-2"

\* lines 119-142: the exercise_config of one selected exercise
ExerciseConfig(exercise, experience_level, goal) ==
    LET tp == intensity_mapping(experience_level)
        sets == CASE exercise.type = "Compound" -> tp.sets
                  [] exercise.type = "Isolation" -> Max(3, tp.sets - 1)
                  [] exercise.type = "Cardio" -> 1
                  [] OTHER -> IF experience_level = "Beginner" THEN 2 ELSE 3
        reps == CASE exercise.type = "Compound" ->
                       IF GoalContains(goal, "Strength") THEN tp.reps
                       ELSE FormatRange(8, 12)
                  [] exercise.type = "Isolation" ->
                       IF GoalContains(goal, "Body Building") THEN FormatRange(10, 15)
                       ELSE FormatRange(12, 15)
                  [] exercise.type = "Cardio" ->
                       << Num(15 + 5 * (IF experience_level = "Intermediate" THEN 1 ELSE 0)
                                 + 10 * (IF experience_level = "Advanced" THEN 1 ELSE 0)),
                          Txt(" minutes") >>
                  [] OTHER -> <<Num(30), Dash, Num(60), Txt(" seconds")>>
    IN  [id |-> exercise.id, title |-> exercise.title, sets |-> sets, reps |-> reps,
         rest |-> _determine_rest_period(exercise.type, goal),
         tempo |-> _determine_tempo(exercise.type, goal),
         notes |-> exercise.instructions]

(***************************************************************************)
(* planner.py: the Progression Engine (_apply_progression)                 *)
(***************************************************************************)
deload_frequency(experience_level) ==
    IF experience_level = "Advanced" THEN 3 ELSE 4

\* faulty variant: the deload week is counted from week 0
IsDeload_OffByOne(week, experience_level) ==
    (week - 1) % deload_frequency(experience_level) = 0

\* faulty variant: deload weeks only in programs longer than 4 weeks
IsDeload_LongOnly(week, experience_level) ==
    prefs.duration > 4 /\ week % deload_frequency(experience_level) = 0

\* line 259
IsDeload(week, experience_level) == week % deload_frequency(experience_level) = 0

NamedLifts == {"squat", "deadlift", "bench press", "overhead press"}

\* faulty variant: the floor of 2 sets is left out
DeloadSets_NoFloor(sets) == (sets * 6) \div 10

\* line 295: max(2, int(sets * 0.6))
DeloadSets(sets) == Max(2, (sets * 6) \div 10)

\* faulty variant: one more set for every week past week 2, the cap left out
OddWeekSets_PerWeek(sets, week) == sets + (week - 2)

\* line 282: min(sets + 1, 6)
OddWeekSets(sets, week) == Min(sets + 1, 6)

\* notes += suffix raises TypeError when notes is None
Raised == [ok |-> FALSE]

\* faulty variant: the copy is rebuilt from title, sets, reps and notes only
exercise_copy_Partial(exercise) == [exercise EXCEPT !.rest = "", !.tempo = ""]

\* line 275, exercise.copy(): a dict with every key of the base exercise
exercise_copy(exercise) == exercise

\* lines 275-301: the copy of one exercise for one week, or the exception
ProgressExercise(exercise, week, experience_level) ==
    IF ~IsDeload(week, experience_level)
    THEN IF week % 2 = 1
         THEN LET sets == IF week > 2 /\ Lower(exercise.title) \in NamedLifts
                          THEN OddWeekSets(exercise.sets, week)
                          ELSE exercise.sets
              IN  IF HasDash(exercise.reps)
                  THEN LET r == ParseRange(exercise.reps)
                       IN  IF r.ok
                           THEN [ok |-> TRUE,
                                 ex |-> [exercise_copy(exercise) EXCEPT
                                           !.sets = sets,
                                           !.reps = FormatRange(Min(r.min + 1, r.max),
                                                                Min(r.max + 2, 20))]]
                           ELSE Raised
                  ELSE [ok |-> TRUE, ex |-> [exercise_copy(exercise) EXCEPT !.sets = sets]]
         ELSE IF exercise.notes = NoneStr
              THEN Raised
              ELSE [ok |-> TRUE,
                    ex |-> [exercise_copy(exercise) EXCEPT
                              !.notes = Append(@, IncreaseNote(
                                  5 + 5 * (IF experience_level # "Beginner" THEN 1 ELSE 0)))]]
    ELSE LET sets == DeloadSets(exercise.sets)
             r    == IF HasDash(exercise.reps) THEN ParseRange(exercise.reps)
                     ELSE [ok |-> TRUE, min |-> 0, max |-> 0]
         IN  IF ~r.ok \/ exercise.notes = NoneStr
             THEN Raised
             ELSE [ok |-> TRUE,
                   ex |-> [exercise_copy(exercise) EXCEPT
                             !.sets = sets,
                             !.reps = IF HasDash(exercise.reps)
                                      THEN FormatRange(r.min, r.min + 2) ELSE @,
                             !.notes = Append(@, DeloadNote)]]

\* faulty variant of CopyTarget: no copy is made, the week keeps the base's own dict
CopyTarget_Alias(source, fresh) == source

\* line 275, exercise.copy(): the dict the week's exercise lives in
CopyTarget(source, fresh) == fresh

Store(h, a, value) ==
    IF a > Len(h) THEN Append(h, value) ELSE [h EXCEPT ![a] = value]

\* lines 273-303 for one day: the inner loop over the day's exercises
RECURSIVE ProgressExercises(_, _, _, _, _, _)
ProgressExercises(h, addrs, k, week, experience_level, acc) ==
    IF k > Len(addrs)
    THEN [ok |-> TRUE, heap |-> h, exercises |-> acc]
    ELSE LET r == ProgressExercise(h[addrs[k]], week, experience_level)
         IN  IF ~r.ok
             THEN [ok |-> FALSE, heap |-> h, exercises |-> acc]
             ELSE LET a == CopyTarget(addrs[k], Len(h) + 1)
                  IN  ProgressExercises(Store(h, a, r.ex), addrs, k + 1, week,
                                        experience_level, Append(acc, a))

\* lines 265-305: the loop over the days of the base schedule
RECURSIVE ProgressDays(_, _, _, _, _, _)
ProgressDays(h, schedule, d, week, experience_level, acc) ==
    IF d > Len(schedule)
    THEN [ok |-> TRUE, heap |-> h, workouts |-> acc]
    ELSE LET r == ProgressExercises(h, schedule[d].exercises, 1, week,
                                    experience_level, <<>>)
         IN  IF ~r.ok
             THEN [ok |-> FALSE, heap |-> r.heap, workouts |-> acc]
             ELSE ProgressDays(r.heap, schedule, d + 1, week, experience_level,
                               Append(acc, [focus |-> schedule[d].focus,
                                            exercises |-> r.exercises]))

(***************************************************************************)
(* planner.py: generate_plan, step by step                                 *)
(***************************************************************************)
NoPlan == [returned |-> FALSE]
NotMutated == [done |-> FALSE]

IdlePure ==
    /\ fn_call = [fn |-> "none"]
    /\ fn_ret = NoRet

StartPlan(selectors, maxPerWeek, maxWeeks) ==
    /\ pc = "split"
    /\ prefs \in [goal : Goals, duration : 1..maxWeeks,
                  workouts_per_week : 1..maxPerWeek,
                  experience_level : Levels, selector : selectors,
                  equipment_access : {{"Full Gym"}}, limitations : {{"None"}}]
    /\ training_split = <<>>
    /\ workout_schedule = <<>>
    /\ progressive_plan = <<>>
    /\ heap = <<>>
    /\ complete_plan = NoPlan
    /\ mutated = NotMutated

\* generate_plan as planner.py has it: the placeholder selector
InitPlan ==
    /\ IdlePure
    /\ IdleDb
    /\ StartPlan({"placeholder"}, MaxPlanPerWeek, MaxWeeks)

\* generate_plan with the catalogue selector of workout_planner.py
InitProg ==
    /\ IdlePure
    /\ IdleDb
    /\ StartPlan({"catalog"}, MaxCatalogPerWeek, MaxCatalogWeeks)

\* line 25
DetermineSplit ==
    /\ pc = "split"
    /\ training_split' = _determine_training_split(prefs.workouts_per_week, prefs.goal)
    /\ pc' = "schedule"
    /\ UNCHANGED <<pureVars, dbVars, prefs, workout_schedule, progressive_plan, heap,
                   complete_plan, mutated>>

\* lines 110-146: one day of _create_workout_schedule
CreateDay ==
    /\ pc = "schedule"
    /\ Len(workout_schedule) < Len(training_split)
    /\ LET day_focus == training_split[Len(workout_schedule) + 1]
       IN  \E exercises \in _select_exercises_for_focus(prefs.selector, day_focus,
                                prefs.equipment_access, prefs.limitations,
                                prefs.experience_level, prefs.goal) :
             LET configs == [i \in 1..Len(exercises) |->
                               ExerciseConfig(exercises[i], prefs.experience_level,
                                              prefs.goal)]
             IN  /\ heap' = heap \o configs
                 /\ workout_schedule' =
                       Append(workout_schedule,
                              [focus |-> day_focus,
                               exercises |-> [i \in 1..Len(exercises) |-> Len(heap) + i]])
    /\ UNCHANGED <<pureVars, dbVars, pc, prefs, training_split, progressive_plan,
                   complete_plan, mutated>>

\* line 148 and line 31: the schedule is complete, _apply_progression starts
ScheduleDone ==
    /\ pc = "schedule"
    /\ Len(workout_schedule) = Len(training_split)
    /\ pc' = "progress"
    /\ UNCHANGED <<pureVars, dbVars, prefs, training_split, workout_schedule,
                   progressive_plan, heap, complete_plan, mutated>>

\* lines 258-311: one week of _apply_progression; an exception leaves generate_plan
ApplyWeek ==
    /\ pc = "progress"
    /\ Len(progressive_plan) < prefs.duration
    /\ LET week == Len(progressive_plan) + 1
           r    == ProgressDays(heap, workout_schedule, 1, week,
                                prefs.experience_level, <<>>)
       IN  IF r.ok
           THEN /\ heap' = r.heap
                /\ progressive_plan' =
                      Append(progressive_plan,
                             [week |-> week,
                              is_deload |-> IsDeload(week, prefs.experience_level),
                              workouts |-> r.workouts])
                /\ pc' = pc
           ELSE /\ heap' = r.heap
                /\ progressive_plan' = <<>>
                /\ pc' = "raised"
    /\ UNCHANGED <<pureVars, dbVars, prefs, training_split, workout_schedule,
                   complete_plan, mutated>>

\* lines 313, 34-40: _add_deload_weeks returns its argument, the plan is packaged
_structure_complete_plan ==
    /\ pc = "progress"
    /\ Len(progressive_plan) = prefs.duration
    /\ complete_plan' = [returned |-> TRUE,
                         goal |-> prefs.goal,
                         duration_weeks |-> prefs.duration,
                         workouts_per_week |-> prefs.workouts_per_week,
                         weekly_schedule |-> progressive_plan]
    /\ pc' = "done"
    /\ UNCHANGED <<pureVars, dbVars, prefs, training_split, workout_schedule,
                   progressive_plan, heap, mutated>>

\* the caller edits sets, reps or notes of one exercise of the returned plan
MutateResult ==
    /\ pc = "done"
    /\ ~mutated.done
    /\ \E w \in 1..Len(complete_plan.weekly_schedule) :
         \E d \in 1..Len(complete_plan.weekly_schedule[w].workouts) :
           \E i \in 1..Len(complete_plan.weekly_schedule[w].workouts[d].exercises) :
             \E field \in {"sets", "reps", "notes"} :
               LET a == complete_plan.weekly_schedule[w].workouts[d].exercises[i]
               IN  /\ heap' = [heap EXCEPT ![a] =
                                 CASE field = "sets" -> [@ EXCEPT !.sets = @ + 10]
                                   [] field = "reps" -> [@ EXCEPT !.reps = <<Num(1)>>]
                                   [] OTHER -> [@ EXCEPT !.notes = <<Txt("edited")>>]]
                   /\ mutated' = [done |-> TRUE, week |-> w, day |-> d, index |-> i]
    /\ UNCHANGED <<pureVars, dbVars, pc, prefs, training_split, workout_schedule,
                   progressive_plan, complete_plan>>

NextPlan ==
    \/ DetermineSplit
    \/ CreateDay
    \/ ScheduleDone
    \/ ApplyWeek
    \/ _structure_complete_plan

NextProg ==
    \/ NextPlan
    \/ MutateResult

SpecPlan == InitPlan /\ [][NextPlan]_vars
SpecProg == InitProg /\ [][NextProg]_vars

(***************************************************************************)
(* generate_plan with the loop body of _apply_progression run week by week *)
(* in any order and day by day in any interleaving, next to the generation *)
(* of another user in the same interpreter                                 *)
(***************************************************************************)
OrderGoals == {"Body Building"}
OrderLevels == {"Beginner", "Advanced"}

InitOrder ==
    /\ IdlePure
    /\ IdleDb
    /\ pc = "split"
    /\ prefs \in [goal : OrderGoals, duration : 2..MaxOrderWeeks,
                  workouts_per_week : {2}, experience_level : OrderLevels,
                  selector : {"placeholder"},
                  equipment_access : {{"Full Gym"}}, limitations : {{"None"}}]
    /\ training_split = <<>>
    /\ workout_schedule = <<>>
    /\ progressive_plan = <<>>
    /\ heap = <<>>
    /\ complete_plan = NoPlan
    /\ mutated = NotMutated

\* lines 258-263 of every week: the week's number and flag, before its days
StartWeeks ==
    /\ pc = "schedule"
    /\ Len(workout_schedule) = Len(training_split)
    /\ progressive_plan' =
          [week \in 1..prefs.duration |->
             [week |-> week,
              is_deload |-> IsDeload(week, prefs.experience_level),
              workouts |-> <<>>]]
    /\ pc' = "weeks"
    /\ UNCHANGED <<pureVars, dbVars, prefs, training_split, workout_schedule,
                   heap, complete_plan, mutated>>

\* lines 266-305 for the next day of any week
BuildDay ==
    /\ pc = "weeks"
    /\ \E week \in 1..prefs.duration :
         /\ Len(progressive_plan[week].workouts) < Len(workout_schedule)
         /\ LET d == Len(progressive_plan[week].workouts) + 1
                r == ProgressExercises(heap, workout_schedule[d].exercises, 1, week,
                                       prefs.experience_level, <<>>)
            IN  IF r.ok
                THEN /\ heap' = r.heap
                     /\ progressive_plan' =
                           [progressive_plan EXCEPT ![week].workouts =
                              Append(@, [focus |-> workout_schedule[d].focus,
                                         exercises |-> r.exercises])]
                     /\ pc' = pc
                ELSE /\ heap' = r.heap
                     /\ progressive_plan' = <<>>
                     /\ pc' = "raised"
    /\ UNCHANGED <<pureVars, dbVars, prefs, training_split, workout_schedule,
                   complete_plan, mutated>>

\* a dict of the generation of another user: generate_plan keeps its data in
\* locals and in dicts it creates (lines 113-146, 192-199, 268-275)
OtherDict == [id |-> 0, title |-> "other user", sets |-> 0, reps |-> <<>>,
              rest |-> "", tempo |-> "", notes |-> <<>>]

\* the generation of another user creates one of its dicts
OtherUserStep ==
    /\ pc \in {"schedule", "weeks"}
    /\ \A a \in 1..Len(heap) : heap[a] # OtherDict
    /\ heap' = Append(heap, OtherDict)
    /\ UNCHANGED <<pureVars, dbVars, pc, prefs, training_split, workout_schedule,
                   progressive_plan, complete_plan, mutated>>

\* lines 307-313 and 34-40: every week is built, the plan is packaged
CollectPlan ==
    /\ pc = "weeks"
    /\ \A week \in 1..prefs.duration :
         Len(progressive_plan[week].workouts) = Len(workout_schedule)
    /\ complete_plan' = [returned |-> TRUE,
                         goal |-> prefs.goal,
                         duration_weeks |-> prefs.duration,
                         workouts_per_week |-> prefs.workouts_per_week,
                         weekly_schedule |-> progressive_plan]
    /\ pc' = "done"
    /\ UNCHANGED <<pureVars, dbVars, prefs, training_split, workout_schedule,
                   progressive_plan, heap, mutated>>

NextOrder ==
    \/ DetermineSplit
    \/ CreateDay
    \/ StartWeeks
    \/ BuildDay
    \/ OtherUserStep
    \/ CollectPlan

SpecOrder == InitOrder /\ [][NextOrder]_vars

(***************************************************************************)
(* The store behind the recommender and the progress tracker.  Dates are   *)
(* day numbers (day 0 is a Monday); a table with no ordering the code      *)
(* reads is a bag of rows.                                                 *)
(***************************************************************************)
\* today.weekday() + 1: Monday = 1 .. Sunday = 7
Weekday(date) == (date % 7) + 1

RECURSIVE SumOver(_, _)
SumOver(S, f) ==
    IF S = {} THEN 0
    ELSE LET x == CHOOSE y \in S : TRUE
         IN  f[x] + SumOver(S \ {x}, f)

\* SELECT COUNT(*) FROM workout_logs, over the rows selected
CountLogs(selected) == SumOver(selected, workout_logs)

\* the ids of the exercises table
ExerciseIds == {c.id : c \in Catalog}

\* database_setup.py, _store_plan_workouts: one row per week, day and exercise
\* of a plan whose days all hold exercises 1..perDay, ids in insertion order
StoredRows(plan_id, duration, perWeek, perDay) ==
    [n \in 1..(duration * perWeek * perDay) |->
        [id |-> n,
         plan_id |-> plan_id,
         week |-> ((n - 1) \div (perWeek * perDay)) + 1,
         day |-> (((n - 1) \div perDay) % perWeek) + 1,
         exercise_id |-> 10 + ((n - 1) % perDay) + 1]]

\* SELECT * FROM plan_workouts WHERE plan_id = ? AND week = ? AND day = ?
WorkoutsOn(plan_id, week, day) ==
    SelectSeq(plan_workouts,
              LAMBDA r : r.plan_id = plan_id /\ r.week = week /\ r.day = day)

\* SELECT * FROM plan_workouts WHERE plan_id = ? AND week = ?
WorkoutsOfWeek(plan_id, week) ==
    SelectSeq(plan_workouts, LAMBDA r : r.plan_id = plan_id /\ r.week = week)

SeqRange(s) == {s[i] : i \in 1..Len(s)}

(***************************************************************************)
(* Engine.py: WorkoutRecommender                                           *)
(***************************************************************************)
day_names == <<"Monday", "Tuesday", "Wednesday", "Thursday", "Friday",
               "Saturday", "Sunday">>

recovery_options == {"Active Recovery", "Mobility Focus", "Light Cardio"}

\* line 183
recovery_threshold == 5

\* faulty variant: a log dated exactly three days ago is left out
_needs_recovery_strict(user_id) ==
    CountLogs({r \in DOMAIN workout_logs :
                 r.date > today - 3 /\ r.user_id = user_id})
        > recovery_threshold

\* lines 168-183
_needs_recovery(user_id) ==
    CountLogs({r \in DOMAIN workout_logs :
                 r.date >= today - 3 /\ r.user_id = user_id})
        > recovery_threshold

\* lines 225-269, by the plan's goal
_generate_bonus_workout(plan_id) ==
    LET plan == CHOOSE p \in fitness_plans : p.id = plan_id
    IN  IF GoalContains(plan.goal, "Body Building") THEN "Specialization"
        ELSE IF GoalContains(plan.goal, "Weight Loss") THEN "Calorie Burner"
        ELSE "Core & Mobility"

\* lines 95-105: the loop removes from the list it iterates over, so the
\* element after a removed one is never visited
RECURSIVE RemoveCompleted(_, _)
RemoveCompleted(workouts, i) ==
    IF i > Len(workouts) THEN workouts
    ELSE IF CountLogs({r \in DOMAIN workout_logs :
                         r.workout_id = workouts[i].id /\ r.date = today}) > 0
         THEN RemoveCompleted(SubSeq(workouts, 1, i - 1)
                                \o SubSeq(workouts, i + 1, Len(workouts)), i + 1)
         ELSE RemoveCompleted(workouts, i + 1)

\* lines 143-158: the rating of the latest Progression Record, if any
LatestRatings(user_id, exercise_id) ==
    LET mine == { i \in 1..Len(progression_tracking) :
                    /\ progression_tracking[i].user_id = user_id
                    /\ progression_tracking[i].exercise_id = exercise_id }
    IN  { progression_tracking[i].progress_rating :
            i \in { j \in mine :
                      \A l \in mine : progression_tracking[l].date
                                         <= progression_tracking[j].date } }

\* _generate_default_workout is  pass : the call returns None
NoneResponse == [type |-> "None"]

\* lines 94-166: the part of get_daily_recommendation after the lookup
AfterLookup(user_id, plan_id, workouts) ==
    LET remaining == RemoveCompleted(workouts, 1)
    IN  IF remaining = <<>>
        THEN {[type |-> "completed",
               bonus_workout |-> _generate_bonus_workout(plan_id)]}
        ELSE LET result_workouts ==
                    SelectSeq(remaining, LAMBDA w : w.exercise_id \in ExerciseIds)
             IN  {[type |-> "scheduled", workouts |-> result_workouts,
                   adjustments |-> adj] :
                    adj \in [1..Len(result_workouts) -> {"increase", "change", "none"}]
                            \cap
                            { a \in [1..Len(result_workouts) ->
                                        {"increase", "change", "none"}] :
                                \A k \in 1..Len(result_workouts) :
                                  LET rs == LatestRatings(user_id,
                                                result_workouts[k].exercise_id)
                                  IN  IF rs = {} THEN a[k] = "none"
                                      ELSE \E r \in rs :
                                             a[k] = IF r > 3 THEN "increase"
                                                    ELSE IF r < -2 THEN "change"
                                                    ELSE "none" }}

\* lines 19-166: the responses get_daily_recommendation can return
get_daily_recommendation(user_id, plan_arg) ==
    LET active  == {p \in fitness_plans : p.is_active}
        \* active_plans[0]: the first active plan in id order
        plan_id == IF plan_arg = 0 /\ active # {}
                   THEN (CHOOSE p \in active : \A q \in active : p.id <= q.id).id
                   ELSE plan_arg
    IN  IF plan_id = 0 THEN {NoneResponse}
        ELSE IF ~\E p \in fitness_plans : p.id = plan_id THEN {NoneResponse}
        ELSE
          LET plan         == CHOOSE p \in fitness_plans : p.id = plan_id
              current_week == ((today - plan.created_date) \div 7) + 1
              weekday      == Weekday(today)
              workouts     == WorkoutsOn(plan_id, current_week, weekday)
          IN  IF workouts = <<>>
              THEN IF _needs_recovery(user_id)
                   THEN {[type |-> "recovery", workout |-> o] : o \in recovery_options}
                   ELSE IF WorkoutsOfWeek(plan_id, current_week) # <<>>
                        THEN {[type |-> "alternative",
                               day |-> day_names[alternative.day],
                               workouts |-> WorkoutsOn(plan_id, current_week,
                                                       alternative.day)] :
                                alternative \in
                                   SeqRange(WorkoutsOfWeek(plan_id, current_week))}
                        ELSE AfterLookup(user_id, plan_id, workouts)
              ELSE AfterLookup(user_id, plan_id, workouts)

(***************************************************************************)
(* progresstracker.py: ProgressTracker.analyze_workout_history             *)
(***************************************************************************)
\* faulty variant: the join does not restrict the exercise
JoinedLogs_AnyExercise(user_id, exercise_id, cutoff_date) ==
    { r \in DOMAIN workout_logs :
        /\ r.date >= cutoff_date
        /\ \E i \in 1..Len(plan_workouts) :
             /\ plan_workouts[i].id = r.workout_id
             /\ \E p \in fitness_plans :
                  p.id = plan_workouts[i].plan_id /\ p.user_id = user_id }

\* lines 43-53: the logs joined to plan_workouts and fitness_plans
JoinedLogs(user_id, exercise_id, cutoff_date) ==
    { r \in DOMAIN workout_logs :
        /\ r.date >= cutoff_date
        /\ \E i \in 1..Len(plan_workouts) :
             /\ plan_workouts[i].id = r.workout_id
             /\ plan_workouts[i].exercise_id = exercise_id
             /\ \E p \in fitness_plans :
                  p.id = plan_workouts[i].plan_id /\ p.user_id = user_id }

RECURSIVE SortedDates(_)
SortedDates(S) ==
    IF S = {} THEN <<>>
    ELSE LET m == CHOOSE d \in S : \A e \in S : d <= e
         IN  <<m>> \o SortedDates(S \ {m})

RMax(S) == CHOOSE m \in S : \A x \in S : ~RLess(m, x)

\* lines 62-76: one row per date, the day's best 1RM and its summed volume
daily_stats(logs) ==
    LET dates == SortedDates({r.date : r \in logs})
    IN  [k \in 1..Len(dates) |->
           LET day == {r \in logs : r.date = dates[k]}
           IN  [date |-> dates[k],
                one_rep_max |-> RMax({calculate_one_rep_max(r.weight, r.reps) : r \in day}),
                volume |-> SumOver(day, [r \in day |->
                               workout_logs[r] * r.sets * r.reps * r.weight])]]

\* faulty variant: math.floor in place of int()
progress_rating_Floored(strength_trend) ==
    LET q == RDiv(strength_trend, Int2Rat(5))
    IN  Min(5, Max(-5, q[1] \div q[2]))

\* faulty variant: the lower clamp is left out
progress_rating_NoFloor(strength_trend) ==
    Min(5, TruncInt(RDiv(strength_trend, Int2Rat(5))))

\* line 140
progress_rating(strength_trend) ==
    Min(5, Max(-5, TruncInt(RDiv(strength_trend, Int2Rat(5)))))

\* lines 137-149: the row _save_progression_data inserts
ProgressionRecord(user_id, exercise_id, recent_workout, strength_trend) ==
    [user_id |-> user_id, exercise_id |-> exercise_id, date |-> today,
     one_rep_max |-> recent_workout.one_rep_max,
     volume_total |-> recent_workout.volume,
     progress_rating |-> progress_rating(strength_trend)]

\* faulty variant: the row of the same user and exercise is updated in place
_save_progression_data_Update(user_id, exercise_id, recent_workout, strength_trend) ==
    LET row == ProgressionRecord(user_id, exercise_id, recent_workout, strength_trend)
    IN  IF \E i \in 1..Len(progression_tracking) :
              /\ progression_tracking[i].user_id = user_id
              /\ progression_tracking[i].exercise_id = exercise_id
        THEN [i \in 1..Len(progression_tracking) |->
                IF /\ progression_tracking[i].user_id = user_id
                   /\ progression_tracking[i].exercise_id = exercise_id
                THEN row ELSE progression_tracking[i]]
        ELSE Append(progression_tracking, row)

\* lines 142-149: INSERT INTO progression_tracking, one more row
_save_progression_data(user_id, exercise_id, recent_workout, strength_trend) ==
    Append(progression_tracking,
           ProgressionRecord(user_id, exercise_id, recent_workout, strength_trend))

NoAnalysis == [status |-> "none"]

\* lines 151-179: the recommendation strings of one analysis, in order
_generate_recommendations(strength_trend, volume_trend, consistency, logs) ==
    LET rows  == SumOver(logs, [r \in logs |-> workout_logs[r]])
        reps  == SumOver(logs, [r \in logs |-> workout_logs[r] * r.reps])
        mean  == RDiv(Int2Rat(reps), Int2Rat(rows))
    IN  (IF RLess(strength_trend, Int2Rat(-2)) THEN <<"Strength is declining.">>
         ELSE IF RLess(strength_trend, RZero) THEN <<"Strength progress has plateaued.">>
         ELSE IF RLess(Int2Rat(5), strength_trend) THEN <<"Great strength progress!">>
         ELSE <<>>)
        \o
        (IF RLess(volume_trend, Int2Rat(-5))
         THEN <<"Training volume has decreased significantly.">>
         ELSE IF RLess(Int2Rat(10), volume_trend) THEN <<"Volume is increasing well.">>
         ELSE <<>>)
        \o
        (IF RLess(consistency, <<1, 2>>)
         THEN <<"Consider increasing training frequency.">> ELSE <<>>)
        \o
        (IF RLess(Int2Rat(15), mean) THEN <<"Your rep ranges are high.">>
         ELSE IF RLess(mean, Int2Rat(5)) THEN <<"Your rep ranges are low.">>
         ELSE <<>>)

\* lines 28-119 as a function of the store: the value returned and, when the
\* analysis got as far as line 104, the day row handed to _save_progression_data;
\* line 100 divides by timeframe_days / 7 before anything is saved
AnalysisOf(user_id, exercise_id, timeframe_days) ==
    LET logs == JoinedLogs(user_id, exercise_id, today - timeframe_days)
        call == [user_id |-> user_id, exercise_id |-> exercise_id,
                 timeframe_days |-> timeframe_days]
    IN  IF logs = {}
        THEN [saved |-> FALSE, result |-> [status |-> "No data", call |-> call]]
        ELSE IF timeframe_days = 0
        THEN [saved |-> FALSE,
              result |-> [status |-> "ZeroDivisionError", call |-> call]]
        ELSE LET stats          == daily_stats(logs)
                 strength_trend == _calculate_trend([k \in 1..Len(stats) |->
                                                       stats[k].one_rep_max])
                 volume_trend   == _calculate_trend([k \in 1..Len(stats) |->
                                                       Int2Rat(stats[k].volume)])
                 recent_workout == stats[Len(stats)]
                 consistency    == RDiv(Int2Rat(Len(stats)),
                                        RDiv(Int2Rat(timeframe_days), Int2Rat(7)))
             IN  [saved |-> TRUE,
                  recent_workout |-> recent_workout,
                  result |-> [status |-> "success",
                              call |-> call,
                              workout_count |-> Len(stats),
                              current_1rm |-> recent_workout.one_rep_max,
                              strength_trend |-> strength_trend,
                              volume_trend |-> volume_trend,
                              recommendations |->
                                 _generate_recommendations(strength_trend, volume_trend,
                                                           consistency, logs)]]

\* lines 28-119: the call writes its record and returns its value
analyze_workout_history(user_id, exercise_id, timeframe_days) ==
    LET a == AnalysisOf(user_id, exercise_id, timeframe_days)
    IN  /\ analysis' = a.result
        /\ progression_tracking' =
              IF a.saved
              THEN _save_progression_data(user_id, exercise_id, a.recent_workout,
                                          a.result.strength_trend)
              ELSE progression_tracking

(***************************************************************************)
(* progresstracker.py: ProgressTracker.generate_progress_report            *)
(***************************************************************************)
\* SELECT title FROM exercises WHERE id = ?
TitleOf(ex_id) == (CHOOSE c \in Catalog : c.id = ex_id).title

\* d[key] = value on a dict kept as its items in insertion order: a key already
\* present keeps its place and takes the new value
DictSet(d, key, value) ==
    IF \E i \in 1..Len(d) : d[i].key = key
    THEN [i \in 1..Len(d) |->
            IF d[i].key = key THEN [key |-> key, value |-> value] ELSE d[i]]
    ELSE Append(d, [key |-> key, value |-> value])

\* lines 205-216: exercise_progress after the loop over exercise_ids[k..]
RECURSIVE ExerciseProgress(_, _, _, _)
ExerciseProgress(user_id, exercise_ids, k, exercise_progress) ==
    IF k > Len(exercise_ids) THEN exercise_progress
    ELSE IF exercise_ids[k] \in ExerciseIds
    THEN ExerciseProgress(user_id, exercise_ids, k + 1,
                          DictSet(exercise_progress, TitleOf(exercise_ids[k]),
                                  AnalysisOf(user_id, exercise_ids[k], 90).result))
    ELSE ExerciseProgress(user_id, exercise_ids, k + 1, exercise_progress)

\* lines 104-105 inside the loop: the records the analyses of the report write
RECURSIVE ReportRecords(_, _, _)
ReportRecords(user_id, exercise_ids, k) ==
    IF k > Len(exercise_ids) THEN <<>>
    ELSE LET a == IF exercise_ids[k] \in ExerciseIds
                  THEN AnalysisOf(user_id, exercise_ids[k], 90)
                  ELSE [saved |-> FALSE]
         IN  (IF a.saved
              THEN <<ProgressionRecord(user_id, exercise_ids[k], a.recent_workout,
                                       a.result.strength_trend)>>
              ELSE <<>>) \o ReportRecords(user_id, exercise_ids, k + 1)

\* lines 230-234: "title: rec" for every recommendation of every success
RECURSIVE AllRecommendations(_, _)
AllRecommendations(exercise_progress, k) ==
    IF k > Len(exercise_progress) THEN <<>>
    ELSE LET progress == exercise_progress[k].value
         IN  (IF progress.status = "success"
              THEN [i \in 1..Len(progress.recommendations) |->
                      [exercise |-> exercise_progress[k].key,
                       rec |-> progress.recommendations[i]]]
              ELSE <<>>) \o AllRecommendations(exercise_progress, k + 1)

\* lines 181-246; exercise_ids is the result of SELECT DISTINCT exercise_id
generate_progress_report(user_id, plan_id, exercise_ids) ==
    IF ~\E p \in fitness_plans : p.id = plan_id
    THEN /\ report' = [status |-> "error"]
         /\ UNCHANGED progression_tracking
    ELSE LET exercise_progress == ExerciseProgress(user_id, exercise_ids, 1, <<>>)
             successes == SelectSeq(exercise_progress,
                                    LAMBDA item : item.value.status = "success")
             strength_trends == [i \in 1..Len(successes) |->
                                   successes[i].value.strength_trend]
             all_recommendations == AllRecommendations(exercise_progress, 1)
         IN  /\ report' =
                  [status |-> "success",
                   call |-> [user_id |-> user_id, plan_id |-> plan_id,
                             exercise_ids |-> exercise_ids],
                   avg_strength_trend |->
                      IF strength_trends # <<>>
                      THEN RDiv(RSum(strength_trends), Int2Rat(Len(strength_trends)))
                      ELSE RZero,
                   exercise_count |-> Len(exercise_progress),
                   exercise_progress |-> exercise_progress,
                   key_recommendations |->
                      SubSeq(all_recommendations, 1, Min(5, Len(all_recommendations)))]
             /\ progression_tracking' =
                  progression_tracking \o ReportRecords(user_id, exercise_ids, 1)

(***************************************************************************)
(* database_setup.py: _calculate_week_progress                             *)
(***************************************************************************)
\* lines 343-364: (completed / total) * 100, completed counting log rows
_calculate_week_progress(plan_id, week) ==
    LET rows      == { i \in 1..Len(plan_workouts) :
                         /\ plan_workouts[i].plan_id = plan_id
                         /\ plan_workouts[i].week = week }
        total     == IF Cardinality(rows) = 0 THEN 1 ELSE Cardinality(rows)
        completed == CountLogs({ r \in DOMAIN workout_logs :
                                   \E i \in rows : plan_workouts[i].id = r.workout_id })
    IN  RMul(RDiv(Int2Rat(completed), Int2Rat(total)), Int2Rat(100))

(***************************************************************************)
(* Operations on the store                                                 *)
(***************************************************************************)
Users == {1, 2}

NoResponse == [done |-> FALSE]
NoReport == [status |-> "none"]

\* the store after create_fitness_plan stored a plan of the given shape for
\* user 1, possibly some weeks ago
PlanStored(durations, perWeeks, perDays, ages, actives) ==
    /\ today = 0
    /\ \E duration \in durations, perWeek \in perWeeks, perDay \in perDays,
          age \in ages, active \in actives :
         /\ fitness_plans = {[id |-> 1, user_id |-> 1, goal |-> "Body Building",
                              created_date |-> 0 - 7 * age, is_active |-> active]}
         /\ plan_workouts = StoredRows(1, duration, perWeek, perDay)
    /\ workout_logs = <<>>
    /\ progression_tracking = <<>>
    /\ analysis = NoAnalysis
    /\ response = NoResponse
    /\ report = NoReport

\* log_workout: one more row of workout_logs, dated today
LogWorkout(users, setsSet, loads, maxLogs) ==
    /\ ~response.done
    /\ SumOver(DOMAIN workout_logs, workout_logs) < maxLogs
    /\ \E i \in 1..Len(plan_workouts), u \in users, s \in setsSet, l \in loads :
         LET row == [workout_id |-> plan_workouts[i].id, date |-> today,
                     user_id |-> u, sets |-> s, reps |-> l[1], weight |-> l[2]]
         IN  workout_logs' =
                IF row \in DOMAIN workout_logs
                THEN [workout_logs EXCEPT ![row] = @ + 1]
                ELSE workout_logs @@ (row :> 1)
    /\ UNCHANGED <<pureVars, planVars, today, fitness_plans, plan_workouts,
                   progression_tracking, analysis, response, report>>

\* midnight passes
AdvanceDay(maxDay) ==
    /\ ~response.done
    /\ today < maxDay
    /\ today' = today + 1
    /\ UNCHANGED <<pureVars, planVars, fitness_plans, plan_workouts, workout_logs,
                   progression_tracking, analysis, response, report>>

\* a call of analyze_workout_history
Analyze(exerciseIds, timeframes, maxRecords) ==
    /\ Len(progression_tracking) < maxRecords
    /\ \E user_id \in Users, exercise_id \in exerciseIds, t \in timeframes :
         analyze_workout_history(user_id, exercise_id, t)
    /\ UNCHANGED <<pureVars, planVars, today, fitness_plans, plan_workouts,
                   workout_logs, response, report>>

\* a call of get_daily_recommendation; plan_id 0 stands for None
Recommend ==
    /\ ~response.done
    /\ \E user_id \in Users, plan_id \in 0..2 :
         \E val \in get_daily_recommendation(user_id, plan_id) :
           response' = [done |-> TRUE, user_id |-> user_id,
                        plan_id |-> plan_id, val |-> val]
    /\ UNCHANGED <<pureVars, planVars, today, fitness_plans, plan_workouts,
                   workout_logs, progression_tracking, analysis, report>>

\* the rows of SELECT DISTINCT exercise_id FROM plan_workouts WHERE plan_id = ?
\* in any order (the query has no ORDER BY)
DistinctExerciseIds(plan_id) ==
    LET ids == {plan_workouts[i].exercise_id :
                  i \in {j \in 1..Len(plan_workouts) :
                           plan_workouts[j].plan_id = plan_id}}
    IN  { s \in [1..Cardinality(ids) -> ids] :
            \A i, j \in 1..Cardinality(ids) : i # j => s[i] # s[j] }

\* a call of generate_progress_report
Report ==
    /\ report = NoReport
    /\ \E user_id \in Users, plan_id \in 1..2 :
         \E exercise_ids \in DistinctExerciseIds(plan_id) :
           generate_progress_report(user_id, plan_id, exercise_ids)
    /\ UNCHANGED <<pureVars, planVars, today, fitness_plans, plan_workouts,
                   workout_logs, analysis, response>>

(***************************************************************************)
(* The progress tracker over a stored plan                                 *)
(***************************************************************************)
\* the <<reps, weight>> pairs logged
TrackLoads == {<<1, 100>>, <<1, 110>>, <<10, 110>>}
Timeframes == {0, 90}
\* the exercise of the stored plan and one the plan does not hold
TrackExercises == {11, 12}

InitTrack ==
    /\ IdlePure
    /\ IdlePlan
    /\ PlanStored({1}, {1}, {1}, {0}, {TRUE})

TrackLogWorkout == LogWorkout({1}, {3}, TrackLoads, MaxTrackLogs)
TrackAdvanceDay == AdvanceDay(MaxTrackDay)
TrackAnalyze    == Analyze(TrackExercises, Timeframes, MaxRecords)

NextTrack ==
    \/ TrackLogWorkout
    \/ TrackAdvanceDay
    \/ TrackAnalyze

SpecTrack == InitTrack /\ [][NextTrack]_vars

(***************************************************************************)
(* The daily recommender over a stored plan                                *)
(***************************************************************************)
\* the shapes of a stored plan: <<workouts per week, exercises per day>>
RecShapes == {<<1, 0>>, <<1, 1>>, <<1, 2>>, <<2, 1>>, <<1, 3>>}

\* workout logs written before a recommendation: one past the threshold
MaxRecLogs == recovery_threshold + 1

InitRec ==
    /\ IdlePure
    /\ IdlePlan
    /\ \E s \in RecShapes :
         PlanStored({1}, {s[1]}, {s[2]}, 0..MaxPlanAge, BOOLEAN)

RecLogWorkout == LogWorkout({1}, {3}, {<<10, 50>>}, MaxRecLogs)
RecAdvanceDay == AdvanceDay(MaxRecDay)

NextRec ==
    \/ RecLogWorkout
    \/ RecAdvanceDay
    \/ Recommend

SpecRec == InitRec /\ [][NextRec]_vars

(***************************************************************************)
(* The recommender's adjustments: logging, analyses, then a recommendation *)
(***************************************************************************)
\* 1RM 100 and 120: trends of 0, +20 % and about -17 %
AdjLoads == {<<1, 100>>, <<1, 120>>}

\* one plan of user 1, workouts on Monday and Tuesday, the same exercise
InitAdj ==
    /\ IdlePure
    /\ IdlePlan
    /\ PlanStored({1}, {2}, {1}, {0}, {TRUE})

AdjLogWorkout == LogWorkout({1}, {3}, AdjLoads, MaxAdjLogs)
AdjAdvanceDay == AdvanceDay(MaxAdjDay)
AdjAnalyze    == ~response.done /\ Analyze({11}, {90}, MaxAdjRecords)

NextAdj ==
    \/ AdjLogWorkout
    \/ AdjAdvanceDay
    \/ AdjAnalyze
    \/ Recommend

SpecAdj == InitAdj /\ [][NextAdj]_vars

(***************************************************************************)
(* The progress report over a stored plan                                  *)
(***************************************************************************)
\* the exercises of the plan's only day: one exercise, two, two of the same
\* title, and one that is missing from the exercises table
ReportPlans == {<<11>>, <<11, 12>>, <<11, 17>>, <<11, 99>>}

InitReport ==
    /\ IdlePure
    /\ IdlePlan
    /\ today = 0
    /\ fitness_plans = {[id |-> 1, user_id |-> 1, goal |-> "Body Building",
                         created_date |-> 0, is_active |-> TRUE]}
    /\ \E ids \in ReportPlans :
         plan_workouts = [n \in 1..Len(ids) |->
                            [id |-> n, plan_id |-> 1, week |-> 1, day |-> 1,
                             exercise_id |-> ids[n]]]
    /\ workout_logs = <<>>
    /\ progression_tracking = <<>>
    /\ analysis = NoAnalysis
    /\ response = NoResponse
    /\ report = NoReport

ReportLogWorkout == report = NoReport /\ LogWorkout({1}, {3}, AdjLoads, MaxReportLogs)
ReportAdvanceDay == report = NoReport /\ AdvanceDay(MaxReportDay)

NextReport ==
    \/ ReportLogWorkout
    \/ ReportAdvanceDay
    \/ Report

SpecReport == InitReport /\ [][NextReport]_vars

(***************************************************************************)
(* Plan creation: the two create_fitness_plan functions                    *)
(***************************************************************************)
\* database_setup.py, _store_plan_workouts (lines 241-272) on the plan that
\* generate_plan returns for the default profile (Beginner): one row per week,
\* per workout of the week (day_index counts from 1) and per exercise
_store_plan_workouts(plan_id, goal, duration_weeks, workouts_per_week) ==
    LET split     == _determine_training_split(workouts_per_week, goal)
        exercises == PlaceholderSelection("Beginner", goal)
        perDay    == Len(exercises)
        perWeek   == Len(split) * perDay
    IN  [n \in 1..(duration_weeks * perWeek) |->
           [id |-> n,
            plan_id |-> plan_id,
            week |-> ((n - 1) \div perWeek) + 1,
            day |-> (((n - 1) \div perDay) % Len(split)) + 1,
            exercise_id |-> exercises[((n - 1) % perDay) + 1].id]]

\* exercise_utils.py, lines 93-99
workout_types(focus) ==
    CASE focus = "Power" -> <<"Plyometrics", "Olympic Weightlifting">>
      [] focus = "Strength" -> <<"Strength">>
      [] focus = "Agility" -> <<"Plyometrics">>
      [] focus = "Core" -> <<"Strength">>
      [] OTHER -> <<"Cardio">>

\* exercise_utils.py, lines 104-111
SportsFocus(week, day) ==
    IF day \in {1, 5} THEN "Power"
    ELSE IF day \in {2, 6} THEN "Strength"
    ELSE IF day \in {3, 7} THEN IF week % 2 = 0 THEN "Agility" ELSE "Core"
    ELSE "Conditioning"

\* lines 114-121: up to 3 rows of each type of the focus; the catalogue holds
\* at most one row of each of these types, so the random order has one outcome
RECURSIVE SportsExercises(_, _)
SportsExercises(types, k) ==
    IF k > Len(types) THEN <<>>
    ELSE (CHOOSE s \in RandomLimit({e \in Catalog : e.type = types[k]}, 3) : TRUE)
         \o SportsExercises(types, k + 1)

\* exercise_utils.py, lines 101-132: week after week, day after day
\* (range(1, 9)), one row per exercise found; k counts the (week, day) pairs
RECURSIVE SportsRows(_, _, _, _)
SportsRows(plan_id, duration_weeks, k, rows) ==
    IF k > duration_weeks * 8 THEN rows
    ELSE LET week      == ((k - 1) \div 8) + 1
             day       == ((k - 1) % 8) + 1
             exercises == SportsExercises(workout_types(SportsFocus(week, day)), 1)
         IN  SportsRows(plan_id, duration_weeks, k + 1,
                        rows \o [i \in 1..Len(exercises) |->
                                   [id |-> Len(rows) + i,
                                    plan_id |-> plan_id,
                                    week |-> week,
                                    day |-> day,
                                    exercise_id |-> exercises[i].id]])

\* the fitness_plans row of a new plan
PlanRow(plan_id, goal, duration_weeks) ==
    [id |-> plan_id, user_id |-> 1, goal |-> goal, duration_weeks |-> duration_weeks,
     created_date |-> today, is_active |-> TRUE]

\* database_setup.py, create_fitness_plan (lines 191-235)
CreateFitnessPlan ==
    /\ fitness_plans = {}
    /\ \E goal \in Goals, duration_weeks \in 1..MaxStoreWeeks,
          workouts_per_week \in 1..MaxPerWeek :
         /\ fitness_plans' = {PlanRow(1, goal, duration_weeks)}
         /\ plan_workouts' = _store_plan_workouts(1, goal, duration_weeks,
                                                  workouts_per_week)
    /\ UNCHANGED <<pureVars, planVars, today, workout_logs, progression_tracking,
                   analysis, response, report>>

\* exercise_utils.py, ExerciseDatabase.create_fitness_plan (lines 84-135):
\* workouts are stored for the goal Sports and Athletics only
CreateFitnessPlanByGoal ==
    /\ fitness_plans = {}
    /\ \E goal \in Goals, duration_weeks \in 1..MaxStoreWeeks :
         /\ fitness_plans' = {PlanRow(2, goal, duration_weeks)}
         /\ plan_workouts' = IF goal = "Sports and Athletics"
                             THEN SportsRows(2, duration_weeks, 1, <<>>)
                             ELSE <<>>
    /\ UNCHANGED <<pureVars, planVars, today, workout_logs, progression_tracking,
                   analysis, response, report>>

InitStore ==
    /\ IdlePure
    /\ IdlePlan
    /\ IdleDb

NextStore ==
    \/ CreateFitnessPlan
    \/ CreateFitnessPlanByGoal

SpecStore == InitStore /\ [][NextStore]_vars

(***************************************************************************)
(* Properties                                                              *)
(***************************************************************************)

\* C2: _determine_training_split(n, goal) returns exactly n focus labels for
\* every goal and every n in 1..7, and for n > 7 the 7-label split of n = 7.
C2_SplitLength ==
    (fn_call.fn = "split" /\ fn_ret.done) =>
        /\ fn_call.n <= 7 => Len(fn_ret.val) = fn_call.n
        /\ fn_call.n > 7 =>
              /\ Len(fn_ret.val) = 7
              /\ fn_ret.val = _determine_training_split(7, fn_call.goal)

C2_Witness ==
    /\ fn_call.fn = "split" /\ fn_ret.done
    /\ fn_call.n = 8 /\ fn_call.goal = "Body Building"
    /\ fn_ret.val = default_splits[7]

\* C6: calculate_one_rep_max(weight, reps) is weight for reps = 1, weight * 2
\* for reps > 36 and weight * 36 / (37 - reps) otherwise; (100, 1) gives 100,
\* (100, 10) gives 100 * 36 / 27 and (100, 40) gives 200.
C6_Brzycki ==
    (fn_call.fn = "orm" /\ fn_ret.done) =>
        LET w == fn_call.weight
            r == fn_call.reps
            v == fn_ret.val
        IN  /\ r = 1 => v = <<w, 1>>
            /\ r > 36 => v = <<2 * w, 1>>
            /\ (r # 1 /\ r <= 36) => v[1] * (37 - r) = w * 36 * v[2]
            /\ (w = 100 /\ r = 1) => v = <<100, 1>>
            /\ (w = 100 /\ r = 10) => v[1] * 27 = 100 * 36 * v[2]
            /\ (w = 100 /\ r = 40) => v = <<200, 1>>

C6_Witness ==
    /\ fn_call.fn = "orm" /\ fn_ret.done
    /\ fn_call.weight = 100 /\ fn_call.reps = 10
    /\ fn_ret.val = <<400, 3>>

NonDecreasing(series) ==
    \A i \in 1..(Len(series) - 1) : ~RLess(series[i + 1], series[i])
IsConstant(series) ==
    \A i \in 1..Len(series) : series[i] = series[1]
\* monotonically increasing: never falling and not constant
Increasing(series) ==
    Len(series) >= 2 /\ NonDecreasing(series) /\ ~IsConstant(series)

ScheduleValues(h, schedule) ==
    [d \in 1..Len(schedule) |->
        [i \in 1..Len(schedule[d].exercises) |-> h[schedule[d].exercises[i]]]]

PlanValues(h, plan) ==
    [w \in 1..Len(plan) |-> ScheduleValues(h, plan[w].workouts)]

\* C1 as stated: goal "Body Building", duration 8, workouts_per_week 3 gives 8
\* Weekly Plans numbered 1..8, each with the 3 foci Push, Pull, Legs in that
\* order, and is_deload = true for week 4 and week 8, whatever the other inputs.
C1_Shape ==
    /\ complete_plan.returned
    /\ Len(complete_plan.weekly_schedule) = 8
    /\ \A w \in 1..8 :
          /\ complete_plan.weekly_schedule[w].week = w
          /\ Len(complete_plan.weekly_schedule[w].workouts) = 3
          /\ [d \in 1..3 |-> complete_plan.weekly_schedule[w].workouts[d].focus]
                = <<"Push", "Pull", "Legs">>

C1_Case ==
    /\ prefs.goal = "Body Building"
    /\ prefs.duration = 8
    /\ prefs.workouts_per_week = 3

C3_Isolation ==
    [][ /\ pc = "progress" =>
              /\ ScheduleValues(heap', workout_schedule)
                    = ScheduleValues(heap, workout_schedule)
              /\ PlanValues(heap', progressive_plan)
                    = PlanValues(heap, progressive_plan)
        /\ (pc = "done" /\ ~mutated.done /\ mutated'.done) =>
              /\ ScheduleValues(heap', workout_schedule)
                    = ScheduleValues(heap, workout_schedule)
              /\ \A w \in 1..Len(progressive_plan) :
                   \A d \in 1..Len(progressive_plan[w].workouts) :
                     \A i \in 1..Len(progressive_plan[w].workouts[d].exercises) :
                        <<w, d, i>> # <<mutated'.week, mutated'.day, mutated'.index>>
                          => heap'[progressive_plan[w].workouts[d].exercises[i]]
                               = heap[progressive_plan[w].workouts[d].exercises[i]]
      ]_vars

C3_Witness ==
    /\ mutated.done /\ mutated.week = 2
    /\ Len(progressive_plan) >= 4
    /\ Len(progressive_plan[2].workouts) = 2
    /\ Len(progressive_plan[2].workouts[mutated.day].exercises) = 2
    /\ PlanValues(heap, progressive_plan)[2][mutated.day][mutated.index].notes
          = <<Txt("edited")>>

\* the weeks _apply_progression has produced, as the caller has not yet
\* touched them
Produced == pc \in {"progress", "done"} /\ ~mutated.done

\* C4: in every deload week produced by _apply_progression every exercise has
\* sets >= 2, and every exercise whose base reps is a min-max range has a
\* rewritten range whose max is <= the max of its base range.
C4_Deload ==
    Produced =>
      \A w \in 1..Len(progressive_plan) :
        progressive_plan[w].is_deload =>
          \A d \in 1..Len(workout_schedule) :
            \A i \in 1..Len(workout_schedule[d].exercises) :
              LET base == heap[workout_schedule[d].exercises[i]]
                  ex   == heap[progressive_plan[w].workouts[d].exercises[i]]
              IN  /\ ex.sets >= 2
                  /\ (HasDash(base.reps) /\ ParseRange(base.reps).ok) =>
                        /\ HasDash(ex.reps) /\ ParseRange(ex.reps).ok
                        /\ ParseRange(ex.reps).max <= ParseRange(base.reps).max

C4_Witness ==
    /\ Produced
    /\ \E w \in 1..Len(progressive_plan) :
         /\ progressive_plan[w].is_deload
         /\ \E d \in 1..Len(workout_schedule) :
              \E i \in 1..Len(workout_schedule[d].exercises) :
                /\ heap[workout_schedule[d].exercises[i]].reps = FormatRange(8, 10)
                /\ heap[workout_schedule[d].exercises[i]].sets = 4
                /\ heap[progressive_plan[w].workouts[d].exercises[i]].reps
                      = FormatRange(8, 10)
                /\ heap[progressive_plan[w].workouts[d].exercises[i]].sets = 2

\* C5: in every regular (non-deload) odd week produced by _apply_progression
\* the sets of a named compound lift (squat, deadlift, bench press, overhead
\* press) never exceed 6, and the max of every rewritten rep range never
\* exceeds 20.
C5_OddWeek ==
    Produced =>
      \A w \in 1..Len(progressive_plan) :
        (~progressive_plan[w].is_deload /\ w % 2 = 1) =>
          \A d \in 1..Len(workout_schedule) :
            \A i \in 1..Len(workout_schedule[d].exercises) :
              LET base == heap[workout_schedule[d].exercises[i]]
                  ex   == heap[progressive_plan[w].workouts[d].exercises[i]]
              IN  /\ Lower(ex.title) \in NamedLifts => ex.sets <= 6
                  /\ HasDash(base.reps) =>
                        /\ ParseRange(ex.reps).ok
                        /\ ParseRange(ex.reps).max <= 20

C5_Witness ==
    /\ Produced
    /\ prefs.experience_level = "Advanced"
    /\ Len(progressive_plan) >= 5
    /\ ~progressive_plan[5].is_deload
    /\ \E d \in 1..Len(workout_schedule) :
         \E i \in 1..Len(workout_schedule[d].exercises) :
           /\ heap[workout_schedule[d].exercises[i]].title = "Squat"
           /\ heap[workout_schedule[d].exercises[i]].sets = 5
           /\ heap[progressive_plan[5].workouts[d].exercises[i]].sets = 6
           /\ heap[progressive_plan[5].workouts[d].exercises[i]].reps
                 = FormatRange(9, 14)

\* C8: every Progression Record the Progress Analyzer has written, after any
\* sequence of logs, day changes and analyses, has progress_rating in -5..5.
C8_RatingClamped ==
    \A i \in 1..Len(progression_tracking) :
        progression_tracking[i].progress_rating \in -5..5

\* an analysis whose strength trend is below -25 percent wrote a record
C8_Witness ==
    /\ analysis.status = "success"
    /\ RLess(analysis.strength_trend, Int2Rat(-30))
    /\ progression_tracking # <<>>
    /\ progression_tracking[Len(progression_tracking)].progress_rating = -5

\* the plan a request resolves to: the explicit id, else the first active plan
ResolvedPlans ==
    IF response.plan_id # 0
    THEN {p \in fitness_plans : p.id = response.plan_id}
    ELSE {p \in fitness_plans : p.is_active}

CurrentWeek(p) == ((today - p.created_date) \div 7) + 1

\* the rows of plan_workouts of plan p, this week, on the given weekday
ScheduledOn(p, weekday) ==
    { plan_workouts[i] : i \in { j \in 1..Len(plan_workouts) :
         /\ plan_workouts[j].plan_id = p.id
         /\ plan_workouts[j].week = CurrentWeek(p)
         /\ plan_workouts[j].day = weekday } }

\* the workout logs of the requesting user dated within the last 3 days
RecentLogs ==
    SumOver({r \in DOMAIN workout_logs :
               r.user_id = response.user_id /\ today - r.date <= 3}, workout_logs)

RecoveryTemplates == {"Active Recovery", "Mobility Focus", "Light Cardio"}

\* C9: when a plan is resolved, nothing is scheduled for today and the user has
\* more than 5 logs dated within the last 3 days, the response has type
\* 'recovery' and carries one of the three fixed recovery templates.
C9_Recovery ==
    response.done =>
      \A p \in ResolvedPlans :
        (ScheduledOn(p, Weekday(today)) = {} /\ RecentLogs > 5)
          => /\ response.val.type = "recovery"
             /\ response.val.workout \in RecoveryTemplates

\* a recovery response to a request with exactly 6 recent logs, older logs aside
C9_Witness ==
    /\ response.done
    /\ ResolvedPlans # {}
    /\ \A p \in ResolvedPlans : ScheduledOn(p, Weekday(today)) = {}
    /\ RecentLogs = 6
    /\ response.val.type = "recovery"

\* C10: when a plan is resolved, nothing is scheduled for today and the user has
\* at most 5 logs dated within the last 3 days, the response has type
\* 'alternative', names a weekday other than today's and carries the workouts
\* scheduled for that weekday in the current week.
C10_Alternative ==
    response.done =>
      \A p \in ResolvedPlans :
        (ScheduledOn(p, Weekday(today)) = {} /\ RecentLogs <= 5)
          => /\ response.val.type = "alternative"
             /\ \E d \in 1..7 :
                  /\ d # Weekday(today)
                  /\ response.val.day = day_names[d]
                  /\ SeqRange(response.val.workouts) = ScheduledOn(p, d)

\* a workout row has a log dated today
LoggedToday(w) ==
    \E r \in DOMAIN workout_logs : r.workout_id = w.id /\ r.date = today

\* C11: when at least one workout is scheduled for today and every scheduled
\* workout has a log dated today, the response has type 'completed' and offers
\* a bonus workout, however many workouts are scheduled.
C11_Completed ==
    response.done =>
      \A p \in ResolvedPlans :
        LET scheduled == ScheduledOn(p, Weekday(today))
        IN  (scheduled # {} /\ \A w \in scheduled : LoggedToday(w))
              => /\ response.val.type = "completed"
                 /\ "bonus_workout" \in DOMAIN response.val

\* C12: when at least one workout scheduled for today has no log dated today
\* (every scheduled exercise being in the catalog), the response has type
\* 'scheduled' and its workouts are exactly the scheduled workouts without a
\* log dated today.
C12_Remaining ==
    response.done =>
      \A p \in ResolvedPlans :
        LET scheduled == ScheduledOn(p, Weekday(today))
        IN  ((\E w \in scheduled : ~LoggedToday(w))
               /\ \A w \in scheduled : w.exercise_id \in ExerciseIds)
              => /\ response.val.type = "scheduled"
                 /\ SeqRange(response.val.workouts)
                      = {w \in scheduled : ~LoggedToday(w)}

\* C13: in every week built, every day slot holds as many exercises as the base
\* schedule, in the focus order of the base split, and the exercise at (d, i)
\* has the id, title, rest and tempo of the base exercise at (d, i).
C13_IdentityKept ==
    \A w \in 1..Len(progressive_plan) :
      LET workouts == progressive_plan[w].workouts
      IN  /\ Len(workouts) = Len(workout_schedule)
          /\ \A d \in 1..Len(workouts) :
               /\ workouts[d].focus = training_split[d]
               /\ Len(workouts[d].exercises) = Len(workout_schedule[d].exercises)
               /\ \A i \in 1..Len(workouts[d].exercises) :
                    LET ex   == heap[workouts[d].exercises[i]]
                        base == heap[workout_schedule[d].exercises[i]]
                    IN  /\ ex.id = base.id
                        /\ ex.title = base.title
                        /\ ex.rest = base.rest
                        /\ ex.tempo = base.tempo

\* a returned plan with a deload week whose first exercise differs from the
\* base in sets, reps and notes
C13_Witness ==
    /\ pc = "done"
    /\ ~mutated.done
    /\ \E w \in 1..Len(progressive_plan) :
         /\ progressive_plan[w].is_deload
         /\ \E d \in 1..Len(progressive_plan[w].workouts) :
              /\ progressive_plan[w].workouts[d].exercises # <<>>
              /\ LET ex   == heap[progressive_plan[w].workouts[d].exercises[1]]
                     base == heap[workout_schedule[d].exercises[1]]
                 IN  /\ ex.sets # base.sets
                     /\ ex.reps # base.reps
                     /\ ex.notes # base.notes

\* C14: the Exercise Selector returns no exercise whose equipment is outside the
\* user's equipment set and, unless the limitation set is exactly {"None"}, no
\* exercise contraindicated for one of the user's limitations.
C14_Filtered ==
    (fn_call.fn = "select" /\ fn_ret.done) =>
      \A i \in 1..Len(fn_ret.val) :
        /\ fn_ret.val[i].equipment \in fn_call.equipment
        /\ fn_call.limitations # {"None"} =>
             ~\E c \in exercise_contraindications :
                 /\ c.exercise_id = fn_ret.val[i].id
                 /\ c.limitation \in fn_call.limitations

\* the logs of an exercise of a plan of the user dated within the window
LogsInWindow(user_id, exercise_id, timeframe_days) ==
    { r \in DOMAIN workout_logs :
        /\ today - r.date <= timeframe_days
        /\ \E i \in 1..Len(plan_workouts), p \in fitness_plans :
             /\ plan_workouts[i].id = r.workout_id
             /\ plan_workouts[i].exercise_id = exercise_id
             /\ plan_workouts[i].plan_id = p.id
             /\ p.user_id = user_id }

\* C15: an analysis that finds no workout log of the (user, exercise) within the
\* lookback window returns status "No data" and leaves progression_tracking
\* unchanged.
C15_NoData ==
    [][ (analysis' # analysis \/ progression_tracking' # progression_tracking) =>
          (LogsInWindow(analysis'.call.user_id, analysis'.call.exercise_id,
                        analysis'.call.timeframe_days) = {}
             => /\ analysis'.status = "No data"
                /\ progression_tracking' = progression_tracking) ]_vars

\* "No data" for the plan's exercise while an older log of it lies outside the
\* window and a record of an earlier analysis exists
C15_Witness ==
    /\ analysis.status = "No data"
    /\ analysis.call.user_id = 1
    /\ analysis.call.exercise_id = 11
    /\ \E r \in DOMAIN workout_logs : today - r.date > analysis.call.timeframe_days
    /\ Len(progression_tracking) = 1

\* C16: every call of get_daily_recommendation returns a structured response
\* with a type; with no plan id and no active plan, or a plan id matching no
\* stored plan, the response is the default workout.
C16_Structured ==
    response.done =>
      /\ response.val # NoneResponse
      /\ response.val.type \in {"default", "recovery", "alternative", "completed",
                                "scheduled"}
      /\ ResolvedPlans = {} => response.val.type = "default"

\* the per-level table of the progression patterns: deload frequency and the
\* percentage of volume kept in a deload week
LevelFrequency(level) == IF level = "Advanced" THEN 3 ELSE 4
LevelKeptPercent(level) ==
    CASE level = "Beginner" -> 60
      [] level = "Intermediate" -> 70
      [] level = "Advanced" -> 75

\* C17: week w is flagged is_deload exactly when w mod deload_frequency = 0
\* (Beginner 4, Intermediate 4, Advanced 3), and in a deload week every
\* exercise's sets equal max(2, floor(base sets * (1 - reduction))) with the
\* level's reduction (Beginner 0.40, Intermediate 0.30, Advanced 0.25).
C17_Deload ==
    prefs.experience_level \in {"Beginner", "Intermediate", "Advanced"} =>
      \A w \in 1..Len(progressive_plan) :
        /\ progressive_plan[w].is_deload
             <=> (w % LevelFrequency(prefs.experience_level) = 0)
        /\ progressive_plan[w].is_deload =>
             \A d \in 1..Len(progressive_plan[w].workouts) :
               \A i \in 1..Len(progressive_plan[w].workouts[d].exercises) :
                 LET ex   == heap[progressive_plan[w].workouts[d].exercises[i]]
                     base == heap[workout_schedule[d].exercises[i]]
                     kept == (base.sets * LevelKeptPercent(prefs.experience_level))
                                \div 100
                 IN  ~mutated.done =>
                       ex.sets = IF kept < 2 THEN 2 ELSE kept

\* Python round(): the nearest integer, a tie going to the even one
RoundInt(p) ==
    LET f    == p[1] \div p[2]
        twice == 2 * (p[1] - f * p[2])
    IN  IF twice < p[2] THEN f
        ELSE IF twice > p[2] THEN f + 1
        ELSE IF f % 2 = 0 THEN f ELSE f + 1

Clamp(x, lo, hi) == IF x < lo THEN lo ELSE IF x > hi THEN hi ELSE x

\* the rating of the record the last successful analysis wrote
LastRating == progression_tracking[Len(progression_tracking)].progress_rating

\* C18 as stated: the persisted progress_rating equals strength_trend / 5
\* rounded to the nearest integer and clamped to -5..5.
C18_Original ==
    analysis.status = "success" =>
      LastRating = Clamp(RoundInt(RDiv(analysis.strength_trend, Int2Rat(5))), -5, 5)

\* C18 (amended): the persisted progress_rating equals strength_trend / 5 with
\* its fraction dropped (truncated toward zero) and clamped to -5..5.
C18_Truncated ==
    analysis.status = "success" =>
      LET q == RDiv(analysis.strength_trend, Int2Rat(5))
          t == IF q[1] >= 0 THEN q[1] \div q[2] ELSE -((-q[1]) \div q[2])
      IN  LastRating = Clamp(t, -5, 5)

\* a negative trend between -10 and -5 percent stored as -1
C18_Witness ==
    /\ analysis.status = "success"
    /\ RLess(analysis.strength_trend, Int2Rat(-5))
    /\ RLess(Int2Rat(-10), analysis.strength_trend)
    /\ LastRating = -1

\* the quota table of the Exercise Selector: the level's base adjusted by goal
Quota(level, goal) ==
    LET n    == CASE level = "Intermediate" -> 3 [] level = "Advanced" -> 4 [] OTHER -> 2
        base == [Compound |-> n, Isolation |-> n, Cardio |-> 1, Mobility |-> 1]
    IN  CASE goal = "Body Building" -> [base EXCEPT !.Isolation = n + 1]
          [] goal = "Sports and Athletics" -> [base EXCEPT !.Compound = n + 1]
          [] goal = "Weight Loss" -> [base EXCEPT !.Cardio = 2]
          [] goal = "Mobility Exclusive" ->
               [base EXCEPT !.Mobility = 3, !.Compound = n - 1, !.Isolation = n - 1]
          [] OTHER -> base

CategoryRank(type) ==
    CASE type = "Compound" -> 1 [] type = "Isolation" -> 2
      [] type = "Cardio" -> 3 [] OTHER -> 4

\* C19: the quota of each category is the level's base adjusted by goal and is
\* never negative; the list a selection returns holds at most quota-many
\* exercises of each category, grouped in the order Compound, Isolation,
\* Cardio, Mobility.
C19_Quota ==
    (fn_call.fn = "select" /\ fn_ret.done) =>
      LET q == Quota(fn_call.experience_level, fn_call.goal)
          n == Len(fn_ret.val)
      IN  /\ \A t \in {"Compound", "Isolation", "Cardio", "Mobility"} :
               /\ q[t] >= 0
               /\ Cardinality({i \in 1..n : fn_ret.val[i].type = t}) <= q[t]
          /\ \A i, j \in 1..n :
               i < j => CategoryRank(fn_ret.val[i].type)
                          <= CategoryRank(fn_ret.val[j].type)

\* the number of exercises a day gets when every category yields
\* min(quota, matches)
Found(focus, experience_level, goal) ==
    LET q == Quota(experience_level, goal)
        n(t) == Min(Max(q[t], 0), Cardinality(Matching(t, focus)))
    IN  n("Compound") + n("Isolation") + n("Cardio") + n("Mobility")

\* a day of the base schedule whose selection fell short of the quota
Shortfall ==
    \E d \in 1..Len(workout_schedule) :
      LET q == Quota(prefs.experience_level, prefs.goal)
      IN  Len(workout_schedule[d].exercises)
            < q.Compound + q.Isolation + q.Cardio + q.Mobility

\* C20: when the catalogue holds fewer matches than the quota of a category
\* (none at all included), the selection returns the matches it found and plan
\* generation still completes: it never raises, and the plan it returns has
\* the full number of weeks, each with one day template per day of the split.
C20_Completes ==
    (prefs.selector = "catalog" /\ Shortfall) =>
      /\ \A d \in 1..Len(workout_schedule) :
           Len(workout_schedule[d].exercises)
             = Found(workout_schedule[d].focus, prefs.experience_level, prefs.goal)
      /\ pc # "raised"
      /\ pc = "done" =>
           /\ complete_plan.returned
           /\ Len(complete_plan.weekly_schedule) = prefs.duration
           /\ \A w \in 1..prefs.duration :
                Len(complete_plan.weekly_schedule[w].workouts) = Len(training_split)

\* C21: the analytics history is append-only.  Every step keeps each existing
\* Progression Record and each Workout Log Entry as it was, and a successful
\* analyze_workout_history appends exactly one Progression Record and leaves
\* the logs alone.
C21_AppendOnly ==
    [][ /\ Len(progression_tracking') >= Len(progression_tracking)
        /\ SubSeq(progression_tracking', 1, Len(progression_tracking))
             = progression_tracking
        /\ \A r \in DOMAIN workout_logs :
             r \in DOMAIN workout_logs' /\ workout_logs'[r] >= workout_logs[r]
        /\ (/\ today' = today
            /\ workout_logs' = workout_logs
            /\ analysis'.status = "success")
           => Len(progression_tracking') = Len(progression_tracking) + 1
      ]_vars

\* a second record was appended for an exercise that already had one
C21_Witness ==
    /\ Len(progression_tracking) = 2
    /\ progression_tracking[1].exercise_id = progression_tracking[2].exercise_id
    /\ progression_tracking[1].user_id = progression_tracking[2].user_id
    /\ analysis.status = "success"
    /\ workout_logs # <<>>

\* the adjustment a rating calls for
AdjustmentFor(r) == IF r > 3 THEN "increase" ELSE IF r < -2 THEN "change" ELSE "none"

\* the Progression Records of one user and exercise, in the order appended
RecordsOf(user_id, exercise_id) ==
    SelectSeq(progression_tracking,
              LAMBDA rec : rec.user_id = user_id /\ rec.exercise_id = exercise_id)

\* C22: in a 'scheduled' recommendation the adjustment of each exercise is
\* the one called for by the rating of the Progression Record appended last
\* for (user, exercise), whatever the records' dates; none when there is no
\* record; one adjustment per exercise at most.
C22_MostRecent ==
    (response.done /\ response.val.type = "scheduled") =>
      /\ DOMAIN response.val.adjustments = 1..Len(response.val.workouts)
      /\ \A k \in 1..Len(response.val.workouts) :
           LET recs == RecordsOf(response.user_id,
                                 response.val.workouts[k].exercise_id)
           IN  response.val.adjustments[k] =
                 IF recs = <<>> THEN "none"
                 ELSE AdjustmentFor(recs[Len(recs)].progress_rating)

\* the analyses of the plan's exercises that are in the exercises table, in
\* the order the report iterated over them
ReportAnalyses ==
    LET ids == SelectSeq(report.call.exercise_ids, LAMBDA e : e \in ExerciseIds)
    IN  [k \in 1..Len(ids) |->
           [title |-> TitleOf(ids[k]),
            result |-> AnalysisOf(report.call.user_id, ids[k], 90).result]]

RECURSIVE RecommendationsInOrder(_, _)
RecommendationsInOrder(analyses, k) ==
    IF k > Len(analyses) THEN <<>>
    ELSE (IF analyses[k].result.status = "success"
          THEN [i \in 1..Len(analyses[k].result.recommendations) |->
                  [exercise |-> analyses[k].title,
                   rec |-> analyses[k].result.recommendations[i]]]
          ELSE <<>>) \o RecommendationsInOrder(analyses, k + 1)

\* C23: avg_strength_trend is the mean of strength_trend over exactly the plan
\* exercises whose analysis succeeded (0 when there is none) and
\* key_recommendations is the first min(5, n) of the n recommendation strings
\* of those exercises, in exercise iteration order.
C23_Report ==
    report.status = "success" =>
      LET ok     == SelectSeq(ReportAnalyses, LAMBDA a : a.result.status = "success")
          trends == [k \in 1..Len(ok) |-> ok[k].result.strength_trend]
          all    == RecommendationsInOrder(ReportAnalyses, 1)
      IN  /\ report.avg_strength_trend =
                IF ok = <<>> THEN RZero ELSE RDiv(RSum(trends), Int2Rat(Len(ok)))
          /\ report.key_recommendations = SubSeq(all, 1, Min(5, Len(all)))

\* C24: every scheduled workout stored by plan creation has a day in 1..7 and
\* a week in 1..duration_weeks of its plan, for every goal and every
\* workouts-per-week.
C24_DayAndWeek ==
    \A i \in 1..Len(plan_workouts) :
      \A p \in fitness_plans :
        p.id = plan_workouts[i].plan_id =>
          /\ plan_workouts[i].day \in 1..7
          /\ plan_workouts[i].week \in 1..p.duration_weeks

\* the exercise carries the deload note
HasDeloadNote(exercise) ==
    \E j \in 1..Len(exercise.notes) : exercise.notes[j] = DeloadNote

\* the weeks of the plan that are flagged is_deload or hold an exercise with
\* the deload note
DeloadTraces ==
    { w \in 1..Len(progressive_plan) :
        \/ progressive_plan[w].is_deload
        \/ \E d \in 1..Len(progressive_plan[w].workouts) :
             \E i \in 1..Len(progressive_plan[w].workouts[d].exercises) :
               HasDeloadNote(heap[progressive_plan[w].workouts[d].exercises[i]]) }

SequentialBase(p) ==
    LET split  == _determine_training_split(p.workouts_per_week, p.goal)
        sel    == PlaceholderSelection(p.experience_level, p.goal)
        perDay == Len(sel)
    IN  [heap |-> [n \in 1..(Len(split) * perDay) |->
                     ExerciseConfig(sel[((n - 1) % perDay) + 1],
                                    p.experience_level, p.goal)],
         schedule |-> [d \in 1..Len(split) |->
                         [focus |-> split[d],
                          exercises |-> [i \in 1..perDay |-> (d - 1) * perDay + i]]]]

RECURSIVE SequentialWeeks(_, _, _, _, _)
SequentialWeeks(h, schedule, week, p, acc) ==
    IF week > p.duration THEN [heap |-> h, weeks |-> acc]
    ELSE LET r == ProgressDays(h, schedule, 1, week, p.experience_level, <<>>)
         IN  SequentialWeeks(r.heap, schedule, week + 1, p,
                             Append(acc, [week |-> week,
                                          is_deload |-> IsDeload(week, p.experience_level),
                                          workouts |-> r.workouts]))

C27_DeloadNoRaise ==
    Produced =>
      \A w \in 1..Len(progressive_plan) :
        progressive_plan[w].is_deload =>
          \A d \in 1..Len(workout_schedule) :
            \A i \in 1..Len(workout_schedule[d].exercises) :
              heap[progressive_plan[w].workouts[d].exercises[i]].sets
                <= heap[workout_schedule[d].exercises[i]].sets

\* C28: a response of type 'completed' is returned only if at least one
\* workout was scheduled for today's (plan, current week, weekday) and every
\* one of them has a log dated today; never when nothing is scheduled.
C28_CompletedOnlyIfLogged ==
    (response.done /\ response.val.type = "completed") =>
      \A p \in ResolvedPlans :
        /\ ScheduledOn(p, Weekday(today)) # {}
        /\ \A w \in ScheduledOn(p, Weekday(today)) : LoggedToday(w)

\* reps is a pure range of two integers, "min-max"
IsIntRange(reps) == HasDash(reps) /\ ParseRange(reps).ok

\* C29: _apply_progression never raises, whatever base schedule the
\* parameterizer produced and whatever the week; reps that are a range of two
\* integers are rewritten in the odd regular weeks and in the deload weeks,
\* and reps that are not such a range ("N minutes", "30-60 seconds") are left
\* as they are in every week.
C29_ProgressionCompletes ==
    /\ pc # "raised"
    /\ Produced =>
         \A w \in 1..Len(progressive_plan) :
           \A d \in 1..Len(workout_schedule) :
             \A i \in 1..Len(workout_schedule[d].exercises) :
               LET base == heap[workout_schedule[d].exercises[i]]
                   ex   == heap[progressive_plan[w].workouts[d].exercises[i]]
                   r    == ParseRange(base.reps)
               IN  IF ~IsIntRange(base.reps) THEN ex.reps = base.reps
                   ELSE IF progressive_plan[w].is_deload
                        THEN ex.reps = FormatRange(r.min, r.min + 2)
                   ELSE IF w % 2 = 1
                        THEN ex.reps = FormatRange(Min(r.min + 1, r.max),
                                                   Min(r.max + 2, 20))
                   ELSE ex.reps = base.reps

\* C30: after any sequence of log_workout operations the week progress
\* percentage of every week of every plan lies in [0, 100], also when a
\* scheduled workout is logged more than once.
C30_WeekProgress ==
    \A p \in fitness_plans :
      \A week \in {plan_workouts[i].week : i \in 1..Len(plan_workouts)}
                    \cup {Len(plan_workouts) + 1} :
        LET pct == _calculate_week_progress(p.id, week)
        IN  ~RLess(pct, RZero) /\ ~RLess(Int2Rat(100), pct)

====
